---- MODULE Spec2Model ----
(***************************************************************************)
(* The tool-calling loop of LogAnalyzerAgent with human-approval gating    *)
(* (03-ai-agent-for-devops/code/10/src/agents/log_analyzer.py), its tool   *)
(* registry (src/tools/__init__.py) and the text extraction it relies on   *)
(* (src/utils/response.py).                                                *)
(*                                                                         *)
(* A Python str is a sequence of one-character strings.  A fixed piece of  *)
(* text the code builds with an f-string is one element of the sequence    *)
(* (it holds no leading or trailing whitespace and is never lower-cased).  *)
(***************************************************************************)
EXTENDS Integers, Sequences, FiniteSets, TLC

\* ------------------------------------------------------------------ bounds
\* Config.MAX_ITERATIONS (src/config.py:44 sets 10).  The ceiling is a
\* configuration value; the model takes a small one.
MAX_ITERATIONS == 2
\* Most tool call requests the model client produces over one cycle.
MaxRequests == 3
\* Longest text, of the characters in TextChars, given to the confirmation detector.
MaxTextLen == 4
\* Longest run of '!', '.', ',' put after a text.
MaxRunLen == 2

\* ----------------------------------------------------------------- strings
Whitespace == {" ", "\n", "\t"}

UpperCase == <<"A","B","C","D","E","F","G","H","I","J","K","L","M",
               "N","O","P","Q","R","S","T","U","V","W","X","Y","Z">>
LowerCase == <<"a","b","c","d","e","f","g","h","i","j","k","l","m",
               "n","o","p","q","r","s","t","u","v","w","x","y","z">>

\* str.lower(), one character
LowerChar(c) ==
    IF \E i \in 1..Len(UpperCase) : UpperCase[i] = c
    THEN LowerCase[CHOOSE i \in 1..Len(UpperCase) : UpperCase[i] = c]
    ELSE c

\* str.lower()
Lower(s) == [i \in 1..Len(s) |-> LowerChar(s[i])]

RECURSIVE LStripChars(_, _)
\* str.lstrip(chars)
LStripChars(s, chars) ==
    IF s = <<>> THEN s
    ELSE IF Head(s) \in chars THEN LStripChars(Tail(s), chars)
    ELSE s

RECURSIVE RStripChars(_, _)
\* str.rstrip(chars)
RStripChars(s, chars) ==
    IF s = <<>> THEN s
    ELSE IF s[Len(s)] \in chars THEN RStripChars(SubSeq(s, 1, Len(s) - 1), chars)
    ELSE s

\* str.strip()
Strip(s) == RStripChars(LStripChars(s, Whitespace), Whitespace)

RECURSIVE Join(_, _)
\* sep.join(parts)
Join(sep, parts) ==
    IF parts = <<>> THEN <<>>
    ELSE IF Len(parts) = 1 THEN parts[1]
    ELSE parts[1] \o sep \o Join(sep, Tail(parts))

\* ------------------------------------------------- confirmation detector
CONFIRMATIONS ==
    { <<"y","e","s">>, <<"y">>, <<"c","o","n","f","i","r","m">>,
      <<"a","p","p","r","o","v","e">>, <<"g","o"," ","a","h","e","a","d">>,
      <<"d","o"," ","i","t">>, <<"o","k">>, <<"p","r","o","c","e","e","d">>,
      <<"s","u","r","e">>, <<"y","e","a","h">>, <<"y","e","p">> }

\* Variant: a detector that accepts a text that starts with a vocabulary word
is_confirmation_prefix(text) ==
    LET t == RStripChars(Lower(Strip(text)), {"!", ".", ","})
    IN  \E n \in 0..Len(t) : SubSeq(t, 1, n) \in CONFIRMATIONS

\* Variant: a detector that compares without lower-casing
is_confirmation_no_lower(text) ==
    RStripChars(Strip(text), {"!", ".", ","}) \in CONFIRMATIONS

\* is_confirmation (log_analyzer.py lines 26-28)
is_confirmation(text) ==
    RStripChars(Lower(Strip(text)), {"!", ".", ","}) \in CONFIRMATIONS

\* ------------------------------------------------------------ tool registry
SAFE_TOOLS ==
    {"read_log_file", "list_log_files", "search_logs", "send_slack_notification"}

APPROVAL_REQUIRED_TOOLS == {"reboot_rds_instance", "restart_kubernetes_pod"}

\* Variant: a registry that gates only one of the two infrastructure tools
requires_approval_one(tool_name) == tool_name = "reboot_rds_instance"

\* Variant: every tool that is not known to be safe needs approval
requires_approval_not_safe(tool_name) == tool_name \notin SAFE_TOOLS

requires_approval(tool_name) == tool_name \in APPROVAL_REQUIRED_TOOLS

get_log_tools == <<"read_log_file", "list_log_files", "search_logs">>

\* Variant: the notification tool is classified but not given to the agent
get_all_tools_no_slack ==
    get_log_tools \o <<"restart_kubernetes_pod", "reboot_rds_instance">>

\* A tool object is its name: the loop reads t.name and calls t.invoke.
get_all_tools ==
    get_log_tools \o
    <<"restart_kubernetes_pod", "reboot_rds_instance", "send_slack_notification">>

None == "None"

\* ----------------------------------------------------------- model turns
\* response.content is a str or a list of content blocks
StrContent(s) == [kind |-> "str", val |-> s]
ListContent(blocks) == [kind |-> "list", val |-> blocks]

TextBlock(s) == [kind |-> "dict", has_text |-> TRUE, text |-> s]
OtherDictBlock == [kind |-> "dict", has_text |-> FALSE, text |-> <<>>]
StrBlock(s) == [kind |-> "str", has_text |-> FALSE, text |-> s]

RECURSIVE TextParts(_)
\* the text_parts list of extract_response_text
TextParts(blocks) ==
    IF blocks = <<>> THEN <<>>
    ELSE LET b == Head(blocks)
             rest == TextParts(Tail(blocks))
         IN  IF b.kind = "dict"
             THEN (IF b.has_text THEN <<b.text>> \o rest ELSE rest)
             ELSE IF b.kind = "str" THEN <<b.text>> \o rest
             ELSE rest

\* Variant: the text without the final strip()
extract_response_text_no_strip(response) ==
    IF response.content.kind = "str" THEN response.content.val
    ELSE Join(<<"\n">>, TextParts(response.content.val))

extract_response_text(response) ==
    Strip(IF response.content.kind = "str" THEN response.content.val
          ELSE Join(<<"\n">>, TextParts(response.content.val)))

\* ------------------------------------------------------------- messages
NoId == <<>>

Message(type, content, tool_calls, tool_call_id) ==
    [type |-> type, content |-> content,
     tool_calls |-> tool_calls, tool_call_id |-> tool_call_id]

SystemMessage(s) == Message("system", StrContent(s), <<>>, NoId)
HumanMessage(s) == Message("human", StrContent(s), <<>>, NoId)
AIMessage(content, tool_calls) == Message("ai", content, tool_calls, NoId)
ToolMessage(s, tool_call_id) == Message("tool", StrContent(s), <<>>, tool_call_id)

\* Config.get_system_prompt(): the text of system_prompt.txt
SystemPrompt == <<"system prompt">>

\* self.prompt.format_messages(chat_history=..., input=...)
format_messages(chat_history, input) ==
    <<SystemMessage(SystemPrompt)>> \o chat_history \o <<HumanMessage(input)>>

\* ------------------------------------------------- inputs of the environment
\* Earlier turns of the session: the operator said "yes" in one of them.
EarlierTurns ==
    <<HumanMessage(<<"y","e","s">>), AIMessage(StrContent(<<"d","o","n","e">>), <<>>)>>

\* The arguments of process_query: user_input, chat_history (after
\* "chat_history or []"), and whether an observer is given as callbacks.
ProcessQueryArgs ==
    { <<<<" ","O","k","!">>,             <<>>,         TRUE>>,
      <<<<" ","O","k","!">>,             EarlierTurns, FALSE>>,
      <<<<"y","e","s"," ","p","l","s">>, EarlierTurns, TRUE>>,
      <<<<"y","e","s"," ","p","l","s">>, <<>>,         FALSE>> }

\* The content of model turn number inv: blank, or a text that differs from the
\* text of the turn before it (a str on odd turns, a list of blocks on even ones).
Contents(inv) ==
    { StrContent(<<" ">>),
      IF inv % 2 = 1
      THEN StrContent(<<"y","e","s"," ">>)
      ELSE ListContent(<<TextBlock(<<" ","g","o">>), OtherDictBlock,
                         StrBlock(<<"o","n"," ">>)>>) }

\* The tool names the model asks for; the last one is in no registry.
RequestNames == {"list_log_files", "restart_kubernetes_pod", "drop_database"}

\* The arguments the model gives a tool.
ArgsOf(name) == <<"args of ", name>>

\* The requests of model turn number inv: ids are assigned by the model client.
ToolCalls(names, inv) ==
    [i \in 1..Len(names) |->
        [name |-> names[i], args |-> ArgsOf(names[i]), id |-> <<inv, i>>]]

\* Every model turn the client can return at invocation inv with budget requests left.
ModelTurns(inv, budget) ==
    { [content |-> c, tool_calls |-> ToolCalls(names, inv)] :
        c \in Contents(inv),
        names \in UNION { [1..n -> RequestNames] : n \in 0..budget } }

\* str(tool_func.invoke(args)) when the tool returns
ToolOutput(name) == <<"output of ", name>>
\* str(e) when it raises
ToolError(name) == <<"failure of ", name>>

\* get_llm_with_tools: the model client with the tool schema bound to it
get_llm_with_tools(ts) == [client |-> "llm", bound |-> ts]

\* ChatPromptTemplate.from_messages of __init__ (lines 46-50)
from_messages ==
    <<[role |-> "system", text |-> SystemPrompt],
      [role |-> "placeholder", text |-> <<"chat_history">>],
      [role |-> "user", text |-> <<"{input}">>]>>

\* ------------------------------------------------------------------ state
VARIABLES
    tools,            \* self.tools
    pending_actions,  \* self.pending_actions
    pc,               \* where the agent is: idle, loop, tools, returned, raised
    user_input,       \* process_query's user_input
    callbacks,        \* process_query's callbacks: TRUE when an observer is given
    approval_granted, \* process_query's approval_granted
    messages,         \* the conversation list
    response,         \* the model turn in hand
    last_text,        \* _tool_loop's last_text
    iter,             \* iterations of _tool_loop's for loop completed
    tool_results,     \* _tool_loop's tool_results
    tc_index,         \* position of the inner for loop in response.tool_calls
    answer,           \* what process_query returned
    invocations,      \* calls of self.llm.invoke made in this cycle
    requested,        \* tool call requests the model produced in this cycle
    executed,         \* calls of tool_func.invoke made in this cycle, in order
    events,           \* calls made on the observer in this cycle, in order
    prev_granted,     \* history: approval_granted of the cycle before
    prev_pending,     \* history: the tool names the cycle before left in pending_actions
    session,          \* the caller's st.session_state.messages (app.py)
    status,           \* the caller's progress observer: none, running, complete, error
    first_run,        \* history: what a cycle with an observer did, kept to repeat it without one
    llm,              \* self.llm
    prompt,           \* self.prompt
    chat_history      \* the caller's list given to process_query as chat_history

vars == <<tools, pending_actions, pc, user_input, callbacks, approval_granted,
          messages, response, last_text, iter, tool_results, tc_index, answer,
          invocations, requested, executed, events, prev_granted, prev_pending,
          session, status, first_run, llm, prompt, chat_history>>

\* What is outside the agent: its caller, and the record of an earlier run
outside == <<session, status, first_run>>

\* No run is on record
NoRun == [pc |-> "none"]

NoResponse == [content |-> StrContent(<<>>), tool_calls |-> <<>>]

Event(ev, name, args, text, success) ==
    [ev |-> ev, name |-> name, args |-> args, text |-> text, success |-> success]

on_thinking == Event("on_thinking", None, <<>>, <<>>, TRUE)
on_reasoning(text) == Event("on_reasoning", None, <<>>, text, TRUE)
on_tool_start(name, args) == Event("on_tool_start", name, args, <<>>, TRUE)
on_tool_end(name, result, success) == Event("on_tool_end", name, <<>>, result, success)
on_approval_skipped(name, args) == Event("on_approval_skipped", name, args, <<>>, TRUE)

\* "if callbacks: callbacks.<event>"
Report(evs, cb, new) == IF cb THEN evs \o new ELSE evs

\* LogAnalyzerAgent.__init__
Init ==
    /\ tools = get_all_tools
    /\ pending_actions = <<>>
    /\ pc = "idle"
    /\ user_input = <<>>
    /\ callbacks = FALSE
    /\ approval_granted = FALSE
    /\ messages = <<>>
    /\ response = NoResponse
    /\ last_text = <<>>
    /\ iter = 0
    /\ tool_results = <<>>
    /\ tc_index = 1
    /\ answer = <<>>
    /\ invocations = 0
    /\ requested = 0
    /\ executed = <<>>
    /\ events = <<>>
    /\ prev_granted = FALSE
    /\ prev_pending = {}
    /\ session = <<>>
    /\ status = "none"
    /\ first_run = NoRun
    /\ llm = get_llm_with_tools(get_all_tools)
    /\ prompt = from_messages
    /\ chat_history = <<>>

\* a or b or c on Python strings
Or3(a, b, c) == IF a # <<>> THEN a ELSE IF b # <<>> THEN b ELSE c

\* Variant: a lookup that falls back on the first registered tool
_find_tool_fallback(name) ==
    IF \E i \in 1..Len(tools) : tools[i] = name THEN name ELSE tools[1]

\* LogAnalyzerAgent._find_tool
_find_tool(name) ==
    IF \E i \in 1..Len(tools) : tools[i] = name
    THEN tools[CHOOSE i \in 1..Len(tools) :
                 tools[i] = name /\ \A j \in 1..(i - 1) : tools[j] # name]
    ELSE None

\* Variant: a cycle that starts without resetting self.pending_actions
StartCycleWith_no_reset(ui, ch, cb, granted) ==
    /\ pc = "idle"
    /\ user_input' = ui
    /\ callbacks' = cb
    /\ pending_actions' = pending_actions
    /\ approval_granted' = granted
    /\ chat_history' = ch
    /\ messages' = format_messages(ch, ui)
    /\ events' = Report(<<>>, cb, <<on_thinking>>)
    /\ invocations' = 1
    /\ executed' = <<>>
    /\ answer' = <<>>
    /\ last_text' = <<>>
    /\ iter' = 0
    /\ tool_results' = <<>>
    /\ tc_index' = 1
    /\ UNCHANGED <<tools, llm, prompt, prev_granted, prev_pending>>

\* Variant: a confirmed cycle that starts by running what the cycle before left pending
StartCycleWith_replay(ui, ch, cb, granted) ==
    /\ pc = "idle"
    /\ user_input' = ui
    /\ callbacks' = cb
    /\ pending_actions' = <<>>
    /\ approval_granted' = granted
    /\ chat_history' = ch
    /\ messages' = format_messages(ch, ui)
    /\ events' = Report(<<>>, cb, <<on_thinking>>)
    /\ invocations' = 1
    /\ executed' = IF granted
                   THEN [k \in 1..Len(pending_actions) |->
                           [tool |-> pending_actions[k].name,
                            args |-> pending_actions[k].args,
                            id |-> pending_actions[k].id, raised |-> FALSE]]
                   ELSE <<>>
    /\ answer' = <<>>
    /\ last_text' = <<>>
    /\ iter' = 0
    /\ tool_results' = <<>>
    /\ tc_index' = 1
    /\ UNCHANGED <<tools, llm, prompt, prev_granted, prev_pending>>

\* process_query up to the first self.llm.invoke, given the approval decision
StartCycleWith(ui, ch, cb, granted) ==
    /\ pc = "idle"
    /\ user_input' = ui
    /\ callbacks' = cb
    /\ pending_actions' = <<>>
    /\ approval_granted' = granted
    /\ chat_history' = ch
    /\ messages' = format_messages(ch, ui)
    /\ events' = Report(<<>>, cb, <<on_thinking>>)
    /\ invocations' = 1
    /\ executed' = <<>>
    /\ answer' = <<>>
    /\ last_text' = <<>>
    /\ iter' = 0
    /\ tool_results' = <<>>
    /\ tc_index' = 1
    /\ UNCHANGED <<tools, llm, prompt, prev_granted, prev_pending>>

\* Variant: a grant that also looks at the previous cycle
StartCycle_history(ui, ch, cb) ==
    StartCycleWith(ui, ch, cb,
        \/ is_confirmation(ui)
        \/ \E i \in 1..Len(ch) :
              ch[i].type = "human" /\ is_confirmation(ch[i].content.val))

\* process_query up to the first self.llm.invoke (lines 66-77)
StartCycle(ui, ch, cb) == StartCycleWith(ui, ch, cb, is_confirmation(ui))

\* process_query: the first model invocation returns a turn; _tool_loop is entered
ProcessQuery ==
    \E a \in ProcessQueryArgs :
        /\ StartCycle(a[1], a[2], a[3])
        /\ \E r \in ModelTurns(1, MaxRequests) :
              /\ response' = r
              /\ requested' = Len(r.tool_calls)
        /\ pc' = "loop"
        /\ UNCHANGED outside

\* process_query: the first model invocation raises
ProcessQueryModelFails ==
    \E a \in ProcessQueryArgs :
        /\ StartCycle(a[1], a[2], a[3])
        /\ response' = NoResponse
        /\ requested' = 0
        /\ pc' = "raised"
        /\ UNCHANGED outside

\* Variant: a loop without a ceiling
range_unbounded(i) == TRUE

\* Variant: a loop with one iteration more
range_one_more(i) == i < MAX_ITERATIONS + 1

\* "for _ in range(Config.MAX_ITERATIONS)": is there another iteration
in_range(i) == i < MAX_ITERATIONS

\* Variant: the text-only turn's content is returned as it came
ReturnFinal_raw ==
    /\ pc = "loop"
    /\ in_range(iter)
    /\ response.tool_calls = <<>>
    /\ answer' = Or3(extract_response_text_no_strip(response), last_text,
                     <<"No response generated.">>)
    /\ pc' = "returned"
    /\ UNCHANGED <<tools, llm, prompt, chat_history,
                   pending_actions, user_input, callbacks, approval_granted,
                   messages, response, last_text, iter, tool_results, tc_index,
                   invocations, requested, executed, events,
                   prev_granted, prev_pending>>
    /\ UNCHANGED outside

\* Variant: a blank text-only turn falls back to the fixed message at once
ReturnFinal_no_last_text ==
    /\ pc = "loop"
    /\ in_range(iter)
    /\ response.tool_calls = <<>>
    /\ answer' = Or3(extract_response_text(response), <<>>,
                     <<"No response generated.">>)
    /\ pc' = "returned"
    /\ UNCHANGED <<tools, llm, prompt, chat_history,
                   pending_actions, user_input, callbacks, approval_granted,
                   messages, response, last_text, iter, tool_results, tc_index,
                   invocations, requested, executed, events,
                   prev_granted, prev_pending>>
    /\ UNCHANGED outside

\* _tool_loop, a turn without tool calls (lines 95-97)
ReturnFinal ==
    /\ pc = "loop"
    /\ in_range(iter)
    /\ response.tool_calls = <<>>
    /\ answer' = Or3(extract_response_text(response), last_text,
                     <<"No response generated.">>)
    /\ pc' = "returned"
    /\ UNCHANGED <<tools, llm, prompt, chat_history,
                   pending_actions, user_input, callbacks, approval_granted,
                   messages, response, last_text, iter, tool_results, tc_index,
                   invocations, requested, executed, events,
                   prev_granted, prev_pending>>
    /\ UNCHANGED outside

\* Variant: the intermediate text is kept only when an observer is given
BeginToolCalls_observer_text ==
    /\ pc = "loop"
    /\ in_range(iter)
    /\ response.tool_calls # <<>>
    /\ LET intermediate == extract_response_text(response)
       IN  /\ last_text' = IF callbacks /\ intermediate # <<>> THEN intermediate
                            ELSE last_text
           /\ events' = Report(events, callbacks /\ intermediate # <<>>,
                               <<on_reasoning(intermediate)>>)
    /\ tool_results' = <<>>
    /\ tc_index' = 1
    /\ pc' = "tools"
    /\ UNCHANGED <<tools, llm, prompt, chat_history,
                   pending_actions, user_input, callbacks, approval_granted,
                   messages, response, iter, answer, invocations, requested, executed,
                   prev_granted, prev_pending>>
    /\ UNCHANGED outside

\* _tool_loop, a turn with tool calls (lines 99-109)
BeginToolCalls ==
    /\ pc = "loop"
    /\ in_range(iter)
    /\ response.tool_calls # <<>>
    /\ LET intermediate == extract_response_text(response)
       IN  /\ last_text' = IF intermediate # <<>> THEN intermediate ELSE last_text
           /\ events' = Report(events, callbacks /\ intermediate # <<>>,
                               <<on_reasoning(intermediate)>>)
    /\ tool_results' = <<>>
    /\ tc_index' = 1
    /\ pc' = "tools"
    /\ UNCHANGED <<tools, llm, prompt, chat_history,
                   pending_actions, user_input, callbacks, approval_granted,
                   messages, response, iter, answer, invocations, requested, executed,
                   prev_granted, prev_pending>>
    /\ UNCHANGED outside

\* Variant: at the ceiling the text of the last turn is reported as reasoning
ReturnExhausted_reports_text ==
    /\ pc = "loop"
    /\ ~in_range(iter)
    /\ answer' = Or3(extract_response_text(response), last_text,
                     <<"Reached maximum analysis steps.">>)
    /\ events' = Report(events, callbacks /\ extract_response_text(response) # <<>>,
                        <<on_reasoning(extract_response_text(response))>>)
    /\ pc' = "returned"
    /\ UNCHANGED <<tools, llm, prompt, chat_history,
                   pending_actions, user_input, callbacks, approval_granted,
                   messages, response, last_text, iter, tool_results, tc_index,
                   invocations, requested, executed,
                   prev_granted, prev_pending>>
    /\ UNCHANGED outside

\* Variant: at the ceiling the fixed message is the answer whatever was seen
ReturnExhausted_fixed_message ==
    /\ pc = "loop"
    /\ ~in_range(iter)
    /\ answer' = <<"Reached maximum analysis steps.">>
    /\ pc' = "returned"
    /\ UNCHANGED <<tools, llm, prompt, chat_history,
                   pending_actions, user_input, callbacks, approval_granted,
                   messages, response, last_text, iter, tool_results, tc_index,
                   invocations, requested, executed, events,
                   prev_granted, prev_pending>>
    /\ UNCHANGED outside

\* _tool_loop, the iterations are used up (lines 128-130)
ReturnExhausted ==
    /\ pc = "loop"
    /\ ~in_range(iter)
    /\ answer' = Or3(extract_response_text(response), last_text,
                     <<"Reached maximum analysis steps.">>)
    /\ pc' = "returned"
    /\ UNCHANGED <<tools, llm, prompt, chat_history,
                   pending_actions, user_input, callbacks, approval_granted,
                   messages, response, last_text, iter, tool_results, tc_index,
                   invocations, requested, executed, events,
                   prev_granted, prev_pending>>
    /\ UNCHANGED outside

\* The text of the blocked notice (lines 149-154)
BlockedNotice(name) ==
    <<"Action '", name, "' requires human approval and was not executed. ",
      "Present your findings and ask the user to confirm. ",
      "When the user confirms, call this tool again -- ",
      "the system will allow it through.">>

\* The inner for loop has a tool call left to handle
HasToolCall == pc = "tools" /\ tc_index <= Len(response.tool_calls)

\* Variant: the requests of a turn are handled from the last to the first
tc_reversed == response.tool_calls[Len(response.tool_calls) - tc_index + 1]

\* The tool call the inner for loop is at
tc == response.tool_calls[tc_index]

\* "tool_results.append(result_msg)" and the step of the inner for loop
AppendResult(result_msg) ==
    /\ tool_results' = Append(tool_results, result_msg)
    /\ tc_index' = tc_index + 1
    /\ UNCHANGED <<tools, llm, prompt, chat_history,
                   pc, user_input, callbacks, approval_granted, messages,
                   response, last_text, iter, answer, invocations, requested,
                   prev_granted, prev_pending>>

\* "if requires_approval(name) and not approval_granted"
\* Variant: the gate applied to every tool
is_blocked_any_tool(name, granted) == ~granted

\* Variant: the gate applied whatever the grant
is_blocked_despite_grant(name, granted) == requires_approval(name)

\* Variant: a grant lets through only what the previous cycle left pending
is_blocked_unless_pending(name, granted) ==
    requires_approval(name) /\ ~(granted /\ name \in prev_pending)

is_blocked(name, granted) == requires_approval(name) /\ ~granted

\* _execute_tool_call, the call is blocked (lines 144-156)
ExecuteBlocked ==
    /\ HasToolCall
    /\ is_blocked(tc.name, approval_granted)
    /\ pending_actions' = Append(pending_actions, tc)
    /\ events' = Report(events, callbacks, <<on_approval_skipped(tc.name, tc.args)>>)
    /\ AppendResult(ToolMessage(BlockedNotice(tc.name), tc.id))
    /\ UNCHANGED executed
    /\ UNCHANGED outside

\* Variant: a call to an unknown tool is reported as a failed tool run
ExecuteNotFound_reports_end ==
    /\ HasToolCall
    /\ ~is_blocked(tc.name, approval_granted)
    /\ _find_tool(tc.name) = None
    /\ events' = Report(events, callbacks,
                        <<on_tool_start(tc.name, tc.args),
                          on_tool_end(tc.name, <<"Tool '", tc.name, "' not found">>,
                                      FALSE)>>)
    /\ AppendResult(ToolMessage(<<"Tool '", tc.name, "' not found">>, tc.id))
    /\ UNCHANGED <<pending_actions, executed>>
    /\ UNCHANGED outside

\* _execute_tool_call, the tool is in no registry (lines 159-165)
ExecuteNotFound ==
    /\ HasToolCall
    /\ ~is_blocked(tc.name, approval_granted)
    /\ _find_tool(tc.name) = None
    /\ events' = Report(events, callbacks, <<on_tool_start(tc.name, tc.args)>>)
    /\ AppendResult(ToolMessage(<<"Tool '", tc.name, "' not found">>, tc.id))
    /\ UNCHANGED <<pending_actions, executed>>
    /\ UNCHANGED outside

\* _execute_tool_call, the tool returns (lines 159-171)
ExecuteSuccess ==
    /\ HasToolCall
    /\ ~is_blocked(tc.name, approval_granted)
    /\ _find_tool(tc.name) # None
    /\ LET result == ToolOutput(_find_tool(tc.name))
       IN  /\ executed' = Append(executed, [tool |-> _find_tool(tc.name),
                                            args |-> tc.args, id |-> tc.id,
                                            raised |-> FALSE])
           /\ events' = Report(events, callbacks,
                               <<on_tool_start(tc.name, tc.args),
                                 on_tool_end(tc.name, result, TRUE)>>)
           /\ AppendResult(ToolMessage(result, tc.id))
    /\ UNCHANGED pending_actions
    /\ UNCHANGED outside

\* Variant: the exception of a tool leaves the loop
ExecuteFailure_uncaught ==
    /\ HasToolCall
    /\ ~is_blocked(tc.name, approval_granted)
    /\ _find_tool(tc.name) # None
    /\ executed' = Append(executed, [tool |-> _find_tool(tc.name), args |-> tc.args,
                                     id |-> tc.id, raised |-> TRUE])
    /\ events' = Report(events, callbacks, <<on_tool_start(tc.name, tc.args)>>)
    /\ pc' = "raised"
    /\ UNCHANGED <<tools, llm, prompt, chat_history,
                   pending_actions, user_input, callbacks, approval_granted,
                   messages, response, last_text, iter, tool_results, tc_index,
                   answer, invocations, requested, prev_granted, prev_pending>>
    /\ UNCHANGED outside

\* _execute_tool_call, the tool raises (lines 159-175)
ExecuteFailure ==
    /\ HasToolCall
    /\ ~is_blocked(tc.name, approval_granted)
    /\ _find_tool(tc.name) # None
    /\ LET e == ToolError(_find_tool(tc.name))
       IN  /\ executed' = Append(executed, [tool |-> _find_tool(tc.name),
                                            args |-> tc.args, id |-> tc.id,
                                            raised |-> TRUE])
           /\ events' = Report(events, callbacks,
                               <<on_tool_start(tc.name, tc.args),
                                 on_tool_end(tc.name, e, FALSE)>>)
           /\ AppendResult(ToolMessage(<<"Error: ">> \o e, tc.id))
    /\ UNCHANGED pending_actions
    /\ UNCHANGED outside

\* Variant: the results of the round are not appended
FeedBack_no_results ==
    /\ pc = "tools"
    /\ tc_index > Len(response.tool_calls)
    /\ messages' = messages \o <<AIMessage(response.content, response.tool_calls)>>
    /\ events' = Report(events, callbacks, <<on_thinking>>)
    /\ invocations' = invocations + 1
    /\ UNCHANGED <<tools, llm, prompt, chat_history,
                   pending_actions, user_input, callbacks, approval_granted,
                   last_text, tool_results, tc_index, answer, executed,
                   prev_granted, prev_pending>>

\* Variant: the loop works on the caller's list and extends it as well
FeedBack_extends_history ==
    /\ pc = "tools"
    /\ tc_index > Len(response.tool_calls)
    /\ messages' = messages \o <<AIMessage(response.content, response.tool_calls)>>
                            \o tool_results
    /\ chat_history' = chat_history
                            \o <<AIMessage(response.content, response.tool_calls)>>
                            \o tool_results
    /\ events' = Report(events, callbacks, <<on_thinking>>)
    /\ invocations' = invocations + 1
    /\ UNCHANGED <<tools, llm, prompt, pending_actions, user_input, callbacks,
                   approval_granted, last_text, tool_results, tc_index, answer,
                   executed, prev_granted, prev_pending>>

\* Variant: "thinking" is reported for the first model invocation only
FeedBack_thinking_once ==
    /\ pc = "tools"
    /\ tc_index > Len(response.tool_calls)
    /\ messages' = messages \o <<AIMessage(response.content, response.tool_calls)>>
                            \o tool_results
    /\ invocations' = invocations + 1
    /\ UNCHANGED <<tools, llm, prompt, chat_history,
                   pending_actions, user_input, callbacks, approval_granted,
                   last_text, tool_results, tc_index, answer, executed, events,
                   prev_granted, prev_pending>>

\* Variant: the recorded model turn keeps only the requests that were let through
FeedBack_without_blocked ==
    /\ pc = "tools"
    /\ tc_index > Len(response.tool_calls)
    /\ messages' = messages
          \o <<AIMessage(response.content,
                         SelectSeq(response.tool_calls,
                                   LAMBDA c : ~is_blocked(c.name, approval_granted)))>>
          \o tool_results
    /\ events' = Report(events, callbacks, <<on_thinking>>)
    /\ invocations' = invocations + 1
    /\ UNCHANGED <<tools, llm, prompt, chat_history,
                   pending_actions, user_input, callbacks, approval_granted,
                   last_text, tool_results, tc_index, answer, executed,
                   prev_granted, prev_pending>>

\* _tool_loop after the inner for loop, up to self.llm.invoke (lines 117-124)
FeedBack ==
    /\ pc = "tools"
    /\ tc_index > Len(response.tool_calls)
    /\ messages' = messages \o <<AIMessage(response.content, response.tool_calls)>>
                            \o tool_results
    /\ events' = Report(events, callbacks, <<on_thinking>>)
    /\ invocations' = invocations + 1
    /\ UNCHANGED <<tools, llm, prompt, chat_history,
                   pending_actions, user_input, callbacks, approval_granted,
                   last_text, tool_results, tc_index, answer, executed,
                   prev_granted, prev_pending>>

\* _tool_loop: the next model invocation returns a turn (line 126)
InvokeAgain ==
    /\ FeedBack
    /\ \E r \in ModelTurns(invocations + 1, MaxRequests - requested) :
          /\ response' = r
          /\ requested' = requested + Len(r.tool_calls)
    /\ iter' = iter + 1
    /\ pc' = "loop"
    /\ UNCHANGED outside

\* _tool_loop: the next model invocation raises (line 126)
InvokeAgainModelFails ==
    /\ FeedBack
    /\ pc' = "raised"
    /\ UNCHANGED <<response, requested, iter>>
    /\ UNCHANGED outside

\* process_query has returned or raised: its frame is gone, the agent object stays
LeaveFrame ==
    /\ pc \in {"returned", "raised"}
    /\ pc' = "idle"
    /\ prev_granted' = approval_granted
    /\ prev_pending' = {pending_actions[i].name : i \in 1..Len(pending_actions)}
    /\ user_input' = <<>>
    /\ callbacks' = FALSE
    /\ approval_granted' = FALSE
    /\ chat_history' = <<>>
    /\ messages' = <<>>
    /\ response' = NoResponse
    /\ last_text' = <<>>
    /\ iter' = 0
    /\ tool_results' = <<>>
    /\ tc_index' = 1
    /\ answer' = <<>>
    /\ invocations' = 0
    /\ requested' = 0
    /\ executed' = <<>>
    /\ events' = <<>>
    /\ UNCHANGED <<tools, llm, prompt, pending_actions>>

\* process_query has returned or raised to a caller that keeps nothing
Leave == LeaveFrame /\ UNCHANGED outside

Next ==
    \/ ProcessQuery
    \/ ProcessQueryModelFails
    \/ ReturnFinal
    \/ BeginToolCalls
    \/ ReturnExhausted
    \/ ExecuteBlocked
    \/ ExecuteNotFound
    \/ ExecuteSuccess
    \/ ExecuteFailure
    \/ InvokeAgain
    \/ InvokeAgainModelFails
    \/ Leave

Spec == Init /\ [][Next]_vars

\* ---------------------------------------------------- reading a cycle's state
RECURSIVE RequestsIn(_)
\* The tool call requests of the model turns recorded in a conversation, in order
RequestsIn(msgs) ==
    IF msgs = <<>> THEN <<>>
    ELSE Head(msgs).tool_calls \o RequestsIn(Tail(msgs))

\* The Tool Result Turns of a conversation, in order
ResultTurnsIn(msgs) == SelectSeq(msgs, LAMBDA m : m.type = "tool")

\* The requests the loop has handled so far in this cycle, in order
HandledRequests ==
    RequestsIn(messages) \o
    (IF pc = "tools" THEN SubSeq(response.tool_calls, 1, tc_index - 1) ELSE <<>>)

\* The Tool Result Turns made so far in this cycle, in order
ResultTurns ==
    ResultTurnsIn(messages) \o (IF pc = "tools" THEN tool_results ELSE <<>>)

\* Every request the model has produced so far in this cycle
ProducedRequests ==
    RequestsIn(messages) \o
    (IF pc \in {"loop", "tools", "returned"} THEN response.tool_calls ELSE <<>>)

ResultTurnsFor(id) == SelectSeq(ResultTurns, LAMBDA m : m.tool_call_id = id)

ExecutionsOf(id) == SelectSeq(executed, LAMBDA x : x.id = id)

EventsNamed(ev) == SelectSeq(events, LAMBDA e : e.ev = ev)

InCycle == pc # "idle"

IsApprovalRequest(c) == c.name \in APPROVAL_REQUIRED_TOOLS

\* The model turns the loop has recorded in the conversation of this cycle
RecordedTurns ==
    { i \in 1..Len(messages) : messages[i].type = "ai" /\ messages[i].tool_calls # <<>> }

\* --------------------------------------------------------------- claims
\* C1: in a cycle whose user input is not a recognized confirmation, no
\* approval-required tool is ever invoked, whatever the model requests.
C1_NoUnapprovedExecution ==
    ~is_confirmation(user_input) =>
        \A i \in 1..Len(executed) : executed[i].tool \notin APPROVAL_REQUIRED_TOOLS

\* C1 witness: without a confirmation, a model turn that mixes a safe and an
\* approval-required request has been handled, and the safe tool has run.
C1_Witness ==
    /\ ~is_confirmation(user_input)
    /\ pc = "tools"
    /\ tc_index > Len(response.tool_calls)
    /\ \E i, j \in 1..Len(response.tool_calls) :
          /\ response.tool_calls[i].name \in APPROVAL_REQUIRED_TOOLS
          /\ response.tool_calls[j].name \in SAFE_TOOLS
          /\ i < j
    /\ executed # <<>>

\* C2: the approval grant of a cycle is the confirmation detector's verdict on
\* the raw user input of that cycle, throughout the cycle, whatever the model
\* said, whatever the prior conversation holds and whatever an earlier cycle
\* was granted; after a confirmed cycle, a cycle without a confirmation blocks
\* every approval-required request again.
C2_GrantFromInputOnly ==
    InCycle =>
        /\ approval_granted = is_confirmation(user_input)
        /\ (prev_granted /\ ~is_confirmation(user_input)) =>
              LET handled == HandledRequests
              IN  \A i \in 1..Len(handled) :
                     IsApprovalRequest(handled[i]) =>
                        /\ ExecutionsOf(handled[i].id) = <<>>
                        /\ \E k \in 1..Len(pending_actions) :
                              pending_actions[k] = handled[i]

\* C2 witness: the cycle before was confirmed, the prior conversation holds a
\* "yes" of the operator, the model itself said "yes" in this cycle, the input
\* is no confirmation, and an approval-required request has been blocked.
C2_Witness ==
    /\ prev_granted
    /\ ~is_confirmation(user_input)
    /\ ~approval_granted
    /\ pending_actions # <<>>
    /\ \E i \in 1..Len(messages) :
          messages[i].type = "human" /\ is_confirmation(messages[i].content.val)
    /\ \E i \in 1..Len(messages) :
          messages[i].type = "ai" /\ messages[i].tool_calls # <<>>
             /\ is_confirmation(extract_response_text(messages[i]))

\* C3 as stated: once the cycle has returned, every tool call request the
\* model produced in it has exactly one Tool Result Turn with its call_id.
C3_EveryRequestAnswered ==
    pc = "returned" =>
        \A i \in 1..Len(ProducedRequests) :
           Len(ResultTurnsFor(ProducedRequests[i].id)) = 1

\* C3 amended: every request of a model turn that the loop handled has exactly
\* one Tool Result Turn carrying its call_id; in the conversation the results
\* of a turn follow it in request order; and the conversation given to a model
\* invocation holds all the turns before it with their results.  (The requests
\* of the turn obtained by the last permitted invocation get none.)
C3_HandledRequestAnswered ==
    /\ LET handled == HandledRequests
       IN  /\ \A i \in 1..Len(handled) : Len(ResultTurnsFor(handled[i].id)) = 1
           /\ Len(ResultTurns) = Len(handled)
    /\ \A i \in RecordedTurns :
          \A k \in 1..Len(messages[i].tool_calls) :
             /\ i + k <= Len(messages)
             /\ messages[i + k].type = "tool"
             /\ messages[i + k].tool_call_id = messages[i].tool_calls[k].id
    /\ pc = "loop" => Cardinality(RecordedTurns) = invocations - 1
    /\ pc = "tools" =>
          /\ Len(tool_results) = tc_index - 1
          /\ \A k \in 1..Len(tool_results) :
                tool_results[k].tool_call_id = response.tool_calls[k].id

\* C3 witness: the model has been invoked again after a turn of several
\* requests, one blocked, one unknown and one executed.
C3_Witness ==
    /\ pc = "loop"
    /\ invocations >= 2
    /\ pending_actions # <<>>
    /\ executed # <<>>
    /\ \E i \in 1..Len(HandledRequests) : _find_tool(HandledRequests[i].name) = None

\* C5 as stated: a cycle makes at most MAX_ITERATIONS model invocations.
C5_AtMostCeilingInvocations == invocations <= MAX_ITERATIONS

\* C5 amended: a cycle makes at most MAX_ITERATIONS + 1 model invocations, the
\* one of process_query and one at the end of each iteration of the loop.
C5_AtMostCeilingPlusOne == invocations <= MAX_ITERATIONS + 1

\* C5 witness: the loop has used all its iterations.
C5_Witness == pc = "returned" /\ invocations = MAX_ITERATIONS + 1

\* What is left of a cycle: the iterations left, then the steps left in the
\* iteration (the tool calls to handle and the model invocation after them)
StepsLeft(p, resp, idx) ==
    IF p = "loop" THEN Len(resp.tool_calls) + 3
    ELSE IF p = "tools" THEN Len(resp.tool_calls) - idx + 2
    ELSE 0

\* A step of a cycle in progress uses up an iteration or a step of the iteration
StepUsesUp ==
    pc \in {"loop", "tools"} =>
        \/ iter' > iter
        \/ /\ iter' = iter
           /\ StepsLeft(pc', response', tc_index') < StepsLeft(pc, response, tc_index)

\* The tool round is not stuck: every request in hand has its step, and after
\* the last one the model is invoked again
CycleGoesOn ==
    /\ HasToolCall =>
          ENABLED (ExecuteBlocked \/ ExecuteNotFound \/ ExecuteSuccess \/ ExecuteFailure)
    /\ (pc = "tools" /\ ~HasToolCall) => ENABLED InvokeAgain

\* At the ceiling the loop's only step is to return
CeilingReturns ==
    (pc = "loop" /\ iter = MAX_ITERATIONS) => pc' = "returned"

\* C4: the loop's iterations never pass the ceiling; at the ceiling the only
\* step left is to return, also when the model turn in hand requests tools;
\* a cycle that got tool requests in every model turn returns a string that is
\* not empty after trimming; and every cycle ends: a cycle in progress always
\* has a step to take, and each step uses up an iteration or, within the
\* iteration, one of its finitely many steps.
C4_TerminatesAtCeiling ==
    /\ [](iter <= MAX_ITERATIONS)
    /\ [][CeilingReturns]_vars
    /\ []((pc = "returned" /\ response.tool_calls # <<>>) => Strip(answer) # <<>>)
    /\ []CycleGoesOn
    /\ [][StepUsesUp]_vars

\* C4 witness: every model turn of the cycle requested tools, and the cycle
\* has returned from the ceiling.
C4_Witness ==
    /\ pc = "returned"
    /\ iter = MAX_ITERATIONS
    /\ response.tool_calls # <<>>
    /\ Cardinality(RecordedTurns) = MAX_ITERATIONS
    /\ Strip(answer) # <<>>

\* The Tool Result Turn of a request is the outcome of its one execution
RealResult(c) ==
    LET runs == ExecutionsOf(c.id)
        results == ResultTurnsFor(c.id)
    IN  /\ Len(runs) = 1
        /\ runs[1].tool = c.name
        /\ Len(results) = 1
        /\ results[1].content.val =
              (IF runs[1].raised
               THEN <<"Error: ">> \o ToolError(c.name)
               ELSE ToolOutput(c.name))
        /\ results[1].content.val # BlockedNotice(c.name)

\* C6: in a cycle whose input is a recognized confirmation, every
\* approval-required request the loop handles runs its tool exactly once, the
\* Tool Result Turn fed back is the outcome of that run and not a blocked
\* notice, Pending Actions stays empty and no blocked event is reported.
C6_ConfirmedCycleExecutes ==
    (InCycle /\ is_confirmation(user_input)) =>
        /\ pending_actions = <<>>
        /\ EventsNamed("on_approval_skipped") = <<>>
        /\ LET handled == HandledRequests
           IN  /\ \A i \in 1..Len(handled) :
                     IsApprovalRequest(handled[i]) => RealResult(handled[i])
               /\ \A i \in 1..Len(executed) :
                     \E k \in 1..Len(handled) : handled[k].id = executed[i].id

\* C6 witness: after a confirmation the model has been invoked again with the
\* result of an approval-required tool that ran.
C6_Witness ==
    /\ is_confirmation(user_input)
    /\ callbacks
    /\ pc = "loop"
    /\ \E i \in 1..Len(executed) :
          /\ executed[i].tool \in APPROVAL_REQUIRED_TOOLS
          /\ ~executed[i].raised
          /\ Len(ResultTurnsIn(messages)) >= 1
          /\ \E k \in 1..Len(messages) :
                /\ messages[k].tool_call_id = executed[i].id
                /\ messages[k].content.val = ToolOutput(executed[i].tool)

\* The requests blocked so far in this cycle, in request order
BlockedRequests ==
    IF approval_granted THEN <<>>
    ELSE SelectSeq(HandledRequests, IsApprovalRequest)

\* C7: during a cycle and after its return Pending Actions is exactly the
\* sequence, in request order, of the approval-required requests blocked so
\* far; each has one blocked-notice Tool Result Turn, no other request has
\* one, and an observer has got one on_approval_skipped per entry, in order.
\* Between cycles the list stays as the cycle left it.
C7_PendingIsBlockedRequests ==
    /\ InCycle =>
          /\ pending_actions = BlockedRequests
          /\ \A i \in 1..Len(pending_actions) :
                /\ Len(ResultTurnsFor(pending_actions[i].id)) = 1
                /\ ResultTurnsFor(pending_actions[i].id)[1].content.val =
                      BlockedNotice(pending_actions[i].name)
          /\ Len(SelectSeq(ResultTurns,
                   LAMBDA m : \E n \in RequestNames :
                                 m.content.val = BlockedNotice(n)))
                = Len(pending_actions)
          /\ EventsNamed("on_approval_skipped") =
                (IF callbacks
                 THEN [i \in 1..Len(pending_actions) |->
                         on_approval_skipped(pending_actions[i].name,
                                             pending_actions[i].args)]
                 ELSE <<>>)
    /\ pc = "idle" =>
          {pending_actions[i].name : i \in 1..Len(pending_actions)} = prev_pending

\* C7 witness: a cycle with an observer has returned with two blocked
\* requests of different model turns, and a safe tool has run in between.
C7_Witness ==
    /\ pc = "returned"
    /\ callbacks
    /\ Len(pending_actions) = 2
    /\ pending_actions[1].id[1] # pending_actions[2].id[1]
    /\ executed # <<>>

\* C8: when an executed tool raises, its Tool Result Turn carries "Error: "
\* and the error's text, an observer gets a tool-end event with success =
\* false, the next tool call of the turn or the next model invocation follows,
\* and the cycle is not aborted: it raises only out of a model invocation.
C8_ToolFailureIsCaught ==
    /\ \A i \in 1..Len(executed) :
          executed[i].raised =>
             /\ Len(ResultTurnsFor(executed[i].id)) = 1
             /\ ResultTurnsFor(executed[i].id)[1].content.val =
                   <<"Error: ">> \o ToolError(executed[i].tool)
             /\ callbacks =>
                   \E k \in 1..Len(events) :
                      events[k] = on_tool_end(executed[i].tool,
                                              ToolError(executed[i].tool), FALSE)
    /\ Len(SelectSeq(events, LAMBDA e : e.ev = "on_tool_end" /\ ~e.success))
          = (IF callbacks
             THEN Len(SelectSeq(executed, LAMBDA x : x.raised)) ELSE 0)
    /\ pc = "tools" => Len(tool_results) = tc_index - 1
    /\ CycleGoesOn
    /\ pc = "raised" => Len(ResultTurns) = Len(HandledRequests)

\* C8 witness: a tool raised, the next tool call of the same turn ran, and
\* the model was invoked again.
C8_Witness ==
    /\ pc = "loop"
    /\ callbacks
    /\ invocations = 2
    /\ Len(executed) = 2
    /\ executed[1].raised
    /\ ~executed[2].raised
    /\ executed[1].id[1] = executed[2].id[1]

\* C9: a request for a tool name that is in no registry runs no tool, gets a
\* "not found" Tool Result Turn with its call_id, and the loop goes on.
C9_UnknownToolNotFound ==
    /\ LET handled == HandledRequests
       IN  \A i \in 1..Len(handled) :
              (\A k \in 1..Len(tools) : tools[k] # handled[i].name) =>
                 LET results == ResultTurnsFor(handled[i].id)
                 IN  /\ ExecutionsOf(handled[i].id) = <<>>
                     /\ Len(results) = 1
                     /\ results[1].content.val =
                           <<"Tool '", handled[i].name, "' not found">>
    /\ \A i \in 1..Len(executed) :
          \E k \in 1..Len(tools) : tools[k] = executed[i].tool
    /\ CycleGoesOn

\* C9 witness: an unknown tool was requested first in a turn, the next call
\* of the turn ran, and the model was invoked again.
C9_Witness ==
    /\ pc = "loop"
    /\ invocations = 2
    /\ Len(HandledRequests) = 2
    /\ HandledRequests[1].name = "drop_database"
    /\ Len(executed) = 1
    /\ executed[1].id = HandledRequests[2].id

\* C10: a process_query call that returns yields an answer that is not empty
\* after trimming; there is no answer before the return or when it raises.
C10_AnswerNonEmpty ==
    /\ pc = "returned" => (Strip(answer) # <<>> /\ answer = Strip(answer))
    /\ pc # "returned" => answer = <<>>

\* C10 witness: the cycle returned from the ceiling although every model turn
\* of it held blank text only.
C10_Witness ==
    /\ pc = "returned"
    /\ extract_response_text(response) = <<>>
    /\ last_text = <<>>
    /\ response.content.val # <<>>
    /\ answer = <<"Reached maximum analysis steps.">>

\* The first model turn of the cycle is in hand, text-only and not blank
FirstTurnIsAnswer ==
    /\ invocations = 1
    /\ pc \in {"loop", "returned"}
    /\ response.tool_calls = <<>>
    /\ extract_response_text(response) # <<>>

\* No tool-start, tool-end or blocked event has been reported
NoToolEvents ==
    \A k \in 1..Len(events) :
       events[k].ev \notin {"on_tool_start", "on_tool_end", "on_approval_skipped"}

\* C11: when the first model turn of a cycle has no tool calls and its text is
\* not blank, the only step left is the return, the answer is that text
\* trimmed, the model was invoked once, no tool ran, Pending Actions is empty
\* and no tool-start, tool-end or blocked event was reported.
C11_TextOnlyFirstTurn ==
    /\ [](FirstTurnIsAnswer =>
             /\ executed = <<>>
             /\ pending_actions = <<>>
             /\ NoToolEvents
             /\ messages = format_messages(SubSeq(messages, 2, Len(messages) - 1), user_input)
             /\ pc = "returned" => answer = extract_response_text(response))
    /\ [][(FirstTurnIsAnswer /\ pc = "loop") =>
             (pc' = "returned" /\ invocations' = 1 /\ response' = response)]_vars

\* C11 witness: a cycle with an observer has returned the text of its first
\* model turn, which came with whitespace around it.
C11_Witness ==
    /\ FirstTurnIsAnswer
    /\ pc = "returned"
    /\ callbacks
    /\ answer = <<"y","e","s">>
    /\ response.content.val # answer

\* ------------------------------------------- the confirmation detector alone
\* Characters of the short texts: letters of "ok" and "y" in both cases,
\* whitespace and trailing punctuation.
TextChars == {"o", "O", "k", "y", " ", "\n", "!", ","}

\* Texts that contain or start with a vocabulary word, or hold none
PartialMatches ==
    { <<"I"," ","g","u","e","s","s"," ","s","o">>,
      <<"y","e","s"," ","p","l","e","a","s","e">>,
      <<"o","k"," ","r","e","s","t","a","r","t"," ","i","t">>,
      <<"o","k","a","y">>,
      <<"n","o">> }

\* Vocabulary phrases as an operator may type them
TypedConfirmations ==
    { <<"Y","e","s">>,
      <<" ","G","O"," ","A","H","E","A","D","!","!"," ">>,
      <<"d","o"," ","i","t",".","\n">>,
      <<"S","u","r","e",",",".","!">>,
      <<"p","r","o","c","e","e","d"," ">> }

\* The texts given to is_confirmation
Texts ==
    UNION { [1..n -> TextChars] : n \in 0..MaxTextLen }
       \cup PartialMatches \cup TypedConfirmations

\* The detector is about to be called on a text
ConfirmInit ==
    /\ user_input \in Texts
    /\ pc = "idle"
    /\ approval_granted = FALSE
    /\ tools = get_all_tools
    /\ pending_actions = <<>>
    /\ callbacks = FALSE
    /\ messages = <<>>
    /\ response = NoResponse
    /\ last_text = <<>>
    /\ iter = 0
    /\ tool_results = <<>>
    /\ tc_index = 1
    /\ answer = <<>>
    /\ invocations = 0
    /\ requested = 0
    /\ executed = <<>>
    /\ events = <<>>
    /\ prev_granted = FALSE
    /\ prev_pending = {}
    /\ session = <<>>
    /\ status = "none"
    /\ first_run = NoRun
    /\ llm = get_llm_with_tools(get_all_tools)
    /\ prompt = from_messages
    /\ chat_history = <<>>

\* "approval_granted = is_confirmation(user_input)" (line 70), on its own
Decide ==
    /\ pc = "idle"
    /\ approval_granted' = is_confirmation(user_input)
    /\ pc' = "decided"
    /\ UNCHANGED <<tools, llm, prompt, chat_history,
                   pending_actions, user_input, callbacks, messages, response,
                   last_text, iter, tool_results, tc_index, answer, invocations,
                   requested, executed, events, prev_granted, prev_pending>>
    /\ UNCHANGED outside

ConfirmNext == Decide

ConfirmSpec == ConfirmInit /\ [][ConfirmNext]_vars

\* A text is whitespace, a vocabulary phrase in any case, a run of '!', '.',
\* ',' and whitespace, in this order and with nothing else
Recognized(text) ==
    \E a \in 0..Len(text) : \E b \in a..Len(text) : \E c \in b..Len(text) :
       /\ \A i \in 1..a : text[i] \in Whitespace
       /\ \E v \in CONFIRMATIONS :
             /\ Len(v) = b - a
             /\ \A i \in 1..Len(v) : LowerChar(text[a + i]) = v[i]
       /\ \A i \in (b + 1)..c : text[i] \in {"!", ".", ","}
       /\ \A i \in (c + 1)..Len(text) : text[i] \in Whitespace

\* C12: is_confirmation(text) is true exactly when the text, trimmed,
\* lower-cased and without its trailing '!', '.', ',', is a phrase of the
\* vocabulary: the text is such a phrase in any case between whitespace and
\* before a run of punctuation; a text that only contains or starts with a
\* vocabulary word, and the empty text, are no confirmations.
C12_ExactVocabularyMatch ==
    pc = "decided" =>
        /\ approval_granted = Recognized(user_input)
        /\ user_input \in PartialMatches \cup {<<>>} => ~approval_granted
        /\ user_input \in TypedConfirmations => approval_granted

\* C12 witness: the detector has refused a text that starts with a vocabulary word.
C12_Witness ==
    /\ pc = "decided"
    /\ user_input = <<"y","e","s"," ","p","l","e","a","s","e">>
    /\ ~approval_granted

\* One character in upper case
UpperChar(c) ==
    IF \E i \in 1..Len(LowerCase) : LowerCase[i] = c
    THEN UpperCase[CHOOSE i \in 1..Len(LowerCase) : LowerCase[i] = c]
    ELSE c

\* Every way of writing a text in upper and lower case
CaseVariants(s) ==
    { [i \in 1..Len(s) |-> IF i \in up THEN UpperChar(LowerChar(s[i])) ELSE LowerChar(s[i])] :
        up \in SUBSET (1..Len(s)) }

\* The runs of '!', '.', ',' put after a text
PunctRuns == UNION { [1..n -> {"!", ".", ","}] : n \in 0..MaxRunLen }

EndsInWhitespace(s) == s # <<>> /\ s[Len(s)] \in Whitespace

\* C13 as stated: the verdict on a text is the verdict on every case variant
\* of it and on the text followed by any run of '!', '.', ','.
C13_CaseAndPunctuationBlind ==
    pc = "decided" =>
        /\ \A t \in CaseVariants(user_input) : is_confirmation(t) = approval_granted
        /\ \A r \in PunctRuns : is_confirmation(user_input \o r) = approval_granted

\* C13 amended: the verdict on a text is the verdict on every case variant of
\* it, and on the text followed by any run of '!', '.', ',' when the text does
\* not end in whitespace; a text that ends in whitespace followed by a
\* non-empty run is never a confirmation, also when the text itself is one.
C13_CaseBlindPunctuationAfterWord ==
    pc = "decided" =>
        /\ \A t \in CaseVariants(user_input) : is_confirmation(t) = approval_granted
        /\ \A r \in PunctRuns :
              IF EndsInWhitespace(user_input) /\ r # <<>>
              THEN ~is_confirmation(user_input \o r)
              ELSE is_confirmation(user_input \o r) = approval_granted

\* C13 witness: a confirmation that ends in whitespace has been accepted, and
\* with '!' after it it is refused, while in upper case it is accepted.
C13_Witness ==
    /\ pc = "decided"
    /\ user_input = <<"o", "k", " ">>
    /\ approval_granted
    /\ ~is_confirmation(user_input \o <<"!">>)
    /\ is_confirmation(<<"O", "K", " ">>)

\* A cycle starts: process_query is called
CycleStarts == pc = "idle" /\ pc' # "idle"

\* C14: the step that starts a cycle empties Pending Actions whatever the
\* cycle before left in it, also when that cycle ended by an exception; the
\* list is empty when the first model invocation returns or raises; and every
\* entry seen during a cycle is a request handled in this cycle.
C14_PendingResetAtStart ==
    /\ [][CycleStarts => pending_actions' = <<>>]_vars
    /\ []((invocations = 1 /\ pc \in {"loop", "raised"}) => pending_actions = <<>>)
    /\ [](InCycle =>
             LET handled == HandledRequests
             IN  \A k \in 1..Len(pending_actions) :
                    \E i \in 1..Len(handled) : handled[i] = pending_actions[k])

\* C14 witness: the cycle before left a blocked request in Pending Actions,
\* and in this cycle the first model invocation has raised: the list is empty.
C14_Witness ==
    /\ prev_pending # {}
    /\ pc = "raised"
    /\ invocations = 1
    /\ pending_actions = <<>>

\* A tool is invoked in this step
ToolRuns == executed' # executed /\ executed' # <<>>

\* C15: a tool is invoked only by the step that handles a Tool Call Request of
\* the model turn in hand, for that request's tool, arguments and call_id;
\* starting a cycle invokes nothing, whatever the cycle before left pending;
\* so a confirmed cycle in which the model does not request the tool that was
\* blocked before never runs it.
C15_NoReplayOfPending ==
    /\ [][ToolRuns =>
             /\ HasToolCall
             /\ executed' = Append(executed,
                                   [tool |-> tc.name, args |-> tc.args, id |-> tc.id,
                                    raised |-> executed'[Len(executed')].raised])]_vars
    /\ [][CycleStarts => executed' = <<>>]_vars
    /\ [](InCycle =>
             LET handled == HandledRequests
             IN  \A i \in 1..Len(executed) :
                    \E k \in 1..Len(handled) :
                       /\ handled[k].id = executed[i].id
                       /\ handled[k].name = executed[i].tool)

\* C15 witness: the cycle before left restart_kubernetes_pod pending, this
\* cycle is confirmed, the model asked for another tool only, which ran, and
\* the cycle has returned without running the pending one.
C15_Witness ==
    /\ prev_pending = {"restart_kubernetes_pod"}
    /\ approval_granted
    /\ pc = "returned"
    /\ executed # <<>>
    /\ \A i \in 1..Len(executed) : executed[i].tool = "list_log_files"
    /\ \A i \in 1..Len(messages) :
          \A k \in 1..Len(messages[i].tool_calls) :
             messages[i].tool_calls[k].name # "restart_kubernetes_pod"
    /\ response.tool_calls = <<>>

\* ------------------------------------- a cycle with and without an observer
\* A cycle is run with an observer and put on record; then the same call is
\* made with callbacks = None, the model client returning the same turns (or
\* raising at the same invocation) and each tool returning or raising as before.

\* The record of a finished cycle
RunRecord ==
    [pc |-> pc, user_input |-> user_input, messages |-> messages,
     response |-> response, answer |-> answer, executed |-> executed,
     pending_actions |-> pending_actions, invocations |-> invocations,
     events |-> events]

\* The position of the cycle's own user message in its conversation
PromptAt(msgs) ==
    CHOOSE i \in 1..Len(msgs) :
       msgs[i].type = "human" /\ \A j \in (i + 1)..Len(msgs) : msgs[j].type # "human"

\* The chat_history the recorded cycle was called with
ChatHistoryOf(run) == SubSeq(run.messages, 2, PromptAt(run.messages) - 1)

\* The model turns the recorded cycle got, in order
TurnsOf(run) ==
    LET own == SubSeq(run.messages, PromptAt(run.messages) + 1, Len(run.messages))
        recorded == SelectSeq(own, LAMBDA m : m.type = "ai")
    IN  [i \in 1..Len(recorded) |->
            [content |-> recorded[i].content, tool_calls |-> recorded[i].tool_calls]]
        \o (IF run.pc = "returned" THEN <<run.response>> ELSE <<>>)

\* The recorded cycle ended by an exception of model invocation number n
FailedAt(run, n) == run.pc = "raised" /\ n = run.invocations

\* A recorded cycle is being repeated
Repeating == first_run.pc \in {"returned", "raised"}

\* Both runs are over
BothRun == [pc |-> "both"]

\* The first run: process_query is called with an observer
TwinFirst == first_run = NoRun /\ ProcessQuery /\ callbacks'

TwinFirstModelFails == first_run = NoRun /\ ProcessQueryModelFails /\ callbacks'

\* The first run has ended and is put on record
TwinRecord ==
    /\ first_run = NoRun
    /\ LeaveFrame
    /\ first_run' = RunRecord
    /\ UNCHANGED <<session, status>>

\* The second run: the same call with callbacks = None
TwinSecond ==
    /\ Repeating
    /\ StartCycle(first_run.user_input, ChatHistoryOf(first_run), FALSE)
    /\ IF FailedAt(first_run, 1)
       THEN /\ response' = NoResponse
            /\ requested' = 0
            /\ pc' = "raised"
       ELSE /\ response' = TurnsOf(first_run)[1]
            /\ requested' = Len(TurnsOf(first_run)[1].tool_calls)
            /\ pc' = "loop"
    /\ UNCHANGED outside

\* In the second run the tool in hand returns or raises as in the first
SameOutcome(raises) ==
    Repeating =>
        \A i \in 1..Len(first_run.executed) :
           first_run.executed[i].id = tc.id => first_run.executed[i].raised = raises

TwinExecuteSuccess == ExecuteSuccess /\ SameOutcome(FALSE)

TwinExecuteFailure == ExecuteFailure /\ SameOutcome(TRUE)

\* In the second run the model client returns the turn it returned in the first
TwinInvokeAgain ==
    IF Repeating
    THEN LET turns == TurnsOf(first_run)
         IN  /\ ~FailedAt(first_run, invocations + 1)
             /\ invocations + 1 <= Len(turns)
             /\ response' = turns[invocations + 1]
             /\ InvokeAgain
    ELSE InvokeAgain

\* In the second run the model client raises where it raised in the first
TwinInvokeAgainModelFails ==
    /\ Repeating => FailedAt(first_run, invocations + 1)
    /\ InvokeAgainModelFails

\* The second run has ended
TwinDone ==
    /\ Repeating
    /\ LeaveFrame
    /\ first_run' = BothRun
    /\ UNCHANGED <<session, status>>

TwinNext ==
    \/ TwinFirst
    \/ TwinFirstModelFails
    \/ TwinRecord
    \/ TwinSecond
    \/ ReturnFinal
    \/ BeginToolCalls
    \/ ReturnExhausted
    \/ ExecuteBlocked
    \/ ExecuteNotFound
    \/ TwinExecuteSuccess
    \/ TwinExecuteFailure
    \/ TwinInvokeAgain
    \/ TwinInvokeAgainModelFails
    \/ TwinDone

TwinSpec == Init /\ [][TwinNext]_vars

\* The second run has ended
Repeated == Repeating /\ pc \in {"returned", "raised"}

\* The second run is not stuck in a tool round
TwinGoesOn ==
    /\ (Repeating /\ HasToolCall) =>
          ENABLED (ExecuteBlocked \/ ExecuteNotFound \/ TwinExecuteSuccess
                      \/ TwinExecuteFailure)
    /\ (Repeating /\ pc = "tools" /\ ~HasToolCall) =>
          ENABLED (TwinInvokeAgain \/ TwinInvokeAgainModelFails)

\* C16: a cycle run without an observer, on the user input, prior
\* conversation, model turns and tool outcomes of a cycle run with one, ends
\* the same way with the same answer, the same conversation, the same tool
\* invocations in the same order and the same Pending Actions; it reports
\* nothing and never gets stuck.
C16_ObserverHasNoInfluence ==
    /\ Repeating => (~callbacks /\ events = <<>>)
    /\ TwinGoesOn
    /\ Repeated =>
          /\ pc = first_run.pc
          /\ answer = first_run.answer
          /\ messages = first_run.messages
          /\ response = first_run.response
          /\ executed = first_run.executed
          /\ pending_actions = first_run.pending_actions
          /\ invocations = first_run.invocations

\* C16 witness: the run with an observer reported reasoning, a blocked call
\* and a tool run; the run without one has returned, and its answer is the
\* intermediate text that came with the tool calls.
C16_Witness ==
    /\ Repeated
    /\ pc = "returned"
    /\ pending_actions # <<>>
    /\ executed # <<>>
    /\ extract_response_text(response) = <<>>
    /\ answer = last_text
    /\ \E k \in 1..Len(first_run.events) : first_run.events[k].ev = "on_reasoning"
    /\ \E k \in 1..Len(first_run.events) : first_run.events[k].ev = "on_tool_end"
    /\ \E k \in 1..Len(first_run.events) : first_run.events[k].ev = "on_approval_skipped"

\* ---------------------------------------------------------------------------
\* The UI session of app.py: main() runs once per prompt, around process_query
\* ---------------------------------------------------------------------------

\* How many prompts a session is followed for
MaxPrompts == 2

\* The prompts typed into st.chat_input (a prompt is never empty: line 191)
Prompts == { <<" ","O","k","!">>, <<"y","e","s"," ","p","l","s">> }

\* What str(e) gives for the exception of a failed model invocation
ModelFailureText == <<"model unavailable">>

\* One entry of st.session_state.messages (the "steps" shown with an assistant
\* message are display data and are left out)
SessionMessage(role, content) == [role |-> role, content |-> content]

\* to_langchain (app.py lines 119-127)
to_langchain(msgs) ==
    [i \in 1..Len(msgs) |->
        IF msgs[i].role = "user"
        THEN HumanMessage(msgs[i].content)
        ELSE AIMessage(StrContent(msgs[i].content), <<>>)]

\* Variant: the prior conversation is made from all messages, the prompt included
MainStart_with_prompt(chat_input) ==
    /\ Len(session) < 2 * MaxPrompts
    /\ session' = Append(session, SessionMessage("user", chat_input))
    /\ status' = "running"
    /\ StartCycle(chat_input,
                  to_langchain(Append(session, SessionMessage("user", chat_input))),
                  TRUE)
    /\ UNCHANGED first_run

\* main, lines 191-209: the prompt is recorded, the status widget and its
\* observer are made, and process_query is called on the earlier messages
MainStart(chat_input) ==
    /\ Len(session) < 2 * MaxPrompts
    /\ session' = Append(session, SessionMessage("user", chat_input))
    /\ status' = "running"
    /\ StartCycle(chat_input, to_langchain(session), TRUE)
    /\ UNCHANGED first_run

\* The tool call requests the model may make in a cycle of a session: the first
\* cycle has the requests of a cycle of Spec, a later cycle has one
SessionRequests == IF Len(session) <= 1 THEN MaxRequests ELSE 1

\* main until the first model invocation has returned a turn
MainPrompt ==
    \E chat_input \in Prompts :
        /\ MainStart(chat_input)
        /\ \E r \in ModelTurns(1, SessionRequests) :
              /\ response' = r
              /\ requested' = Len(r.tool_calls)
        /\ pc' = "loop"

\* main until the first model invocation has raised
MainPromptModelFails ==
    \E chat_input \in Prompts :
        /\ MainStart(chat_input)
        /\ response' = NoResponse
        /\ requested' = 0
        /\ pc' = "raised"

\* The text main shows for a blank answer (lines 210-211)
OrFallback(text) ==
    IF text = <<>> \/ Strip(text) = <<>>
    THEN <<"No response generated. Try a different question.">>
    ELSE text

\* Variant: the failure is reported and the prompt gets no assistant message
MainExcept_no_message ==
    /\ pc = "raised"
    /\ LeaveFrame
    /\ status' = "error"
    /\ UNCHANGED <<session, first_run>>

\* Variant: the failure is reported as a completed analysis
MainExcept_complete ==
    /\ pc = "raised"
    /\ LeaveFrame
    /\ status' = "complete"
    /\ session' = Append(session,
                         SessionMessage("assistant", <<"Error: ">> \o ModelFailureText))
    /\ UNCHANGED first_run

\* main, process_query has returned (lines 210-212 and 217-223)
MainReturn ==
    /\ pc = "returned"
    /\ LeaveFrame
    /\ status' = "complete"
    /\ session' = Append(session, SessionMessage("assistant", OrFallback(answer)))
    /\ UNCHANGED first_run

\* main, process_query has raised (lines 213-215 and 217-223)
MainExcept ==
    /\ pc = "raised"
    /\ LeaveFrame
    /\ status' = "error"
    /\ session' = Append(session,
                         SessionMessage("assistant", <<"Error: ">> \o ModelFailureText))
    /\ UNCHANGED first_run

\* _tool_loop in a session: the next model invocation returns a turn
MainInvokeAgain == InvokeAgain /\ requested' <= SessionRequests

AppNext ==
    \/ MainPrompt
    \/ MainPromptModelFails
    \/ ReturnFinal
    \/ BeginToolCalls
    \/ ExecuteBlocked
    \/ ExecuteNotFound
    \/ ExecuteSuccess
    \/ ExecuteFailure
    \/ MainInvokeAgain
    \/ InvokeAgainModelFails
    \/ ReturnExhausted
    \/ MainReturn
    \/ MainExcept

AppSpec == Init /\ [][AppNext]_vars

\* The text recorded for a prompt whose cycle failed
ErrorText == <<"Error: ">> \o ModelFailureText

\* The session holds user and assistant messages in turn, and the prompt of the
\* running cycle is the only one still without its assistant message
OneAnswerPerPrompt ==
    /\ \A i \in 1..Len(session) :
          session[i].role = (IF i % 2 = 1 THEN "user" ELSE "assistant")
    /\ Len(session) % 2 = (IF pc = "idle" THEN 0 ELSE 1)

\* A failed cycle has no answer, and a session that reported a failure takes
\* the next prompt
FailureLeavesSessionUsable ==
    /\ pc = "raised" => answer = <<>> /\ status = "running"
    /\ (pc = "idle" /\ status = "error" /\ Len(session) < 2 * MaxPrompts)
          => ENABLED MainPrompt

\* A model invocation that fails ends the cycle by the exception, at once
FailurePropagates ==
    (pc # "raised" /\ pc' = "raised")
        => /\ invocations' = IF pc = "idle" THEN 1 ELSE invocations + 1
           /\ answer' = <<>>
           /\ executed' = executed
           /\ pending_actions' = IF pc = "idle" THEN <<>> ELSE pending_actions

\* main reports the failure by error() and records the one "Error: ..." message
FailureIsReported ==
    /\ pc = "raised"
          => /\ pc' = "idle"
             /\ status' = "error"
             /\ session' = Append(session, SessionMessage("assistant", ErrorText))
    /\ (status' = "complete" /\ status # "complete") => pc = "returned"
    /\ (status' = "error" /\ status # "error") => pc = "raised"

\* C17: a failure of a model invocation, the first of a cycle or a later one,
\* leaves process_query as an exception without an answer; main then reports
\* error() and not complete(), records exactly one assistant message
\* "Error: ..." for the prompt, and the session goes on to further cycles.
C17_ModelFailureReachesMain ==
    /\ [](OneAnswerPerPrompt /\ FailureLeavesSessionUsable)
    /\ [][FailurePropagates /\ FailureIsReported]_vars

\* A second cycle fails at a later round, after a first cycle that failed
C17_Witness ==
    /\ pc = "raised"
    /\ invocations > 1
    /\ Len(session) = 3
    /\ session[2] = SessionMessage("assistant", ErrorText)

\* ---------------------------------------------------------------------------
\* C18: the tool calls of one model turn are handled one after the other
\* ---------------------------------------------------------------------------

\* The requests of the turn in hand that the inner loop is done with
DoneCalls == SubSeq(response.tool_calls, 1, tc_index - 1)

\* The observer events of the round in hand that are about tool calls, each as
\* the pair of its kind and its tool name
RoundToolEvents ==
    LET thinking == {i \in 1..Len(events) : events[i].ev = "on_thinking"}
        from == IF thinking = {} THEN 1
                ELSE 1 + CHOOSE i \in thinking : \A j \in thinking : j <= i
        about == SelectSeq(SubSeq(events, from, Len(events)),
                           LAMBDA e : e.ev \in {"on_tool_start", "on_tool_end",
                                                "on_approval_skipped"})
    IN  [i \in 1..Len(about) |-> <<about[i].ev, about[i].name>>]

\* The events one call gives when it is handled alone
EventsOfCall(c) ==
    IF requires_approval(c.name) /\ ~approval_granted
    THEN << <<"on_approval_skipped", c.name>> >>
    ELSE IF \A i \in 1..Len(tools) : tools[i] # c.name
         THEN << <<"on_tool_start", c.name>> >>
         ELSE << <<"on_tool_start", c.name>>, <<"on_tool_end", c.name>> >>

RECURSIVE EventsOfCalls(_)
EventsOfCalls(calls) ==
    IF calls = <<>> THEN <<>>
    ELSE EventsOfCall(Head(calls)) \o EventsOfCalls(Tail(calls))

\* The calls that reach a tool: not blocked, and in the registry
RunsTool(c) ==
    /\ ~(requires_approval(c.name) /\ ~approval_granted)
    /\ \E i \in 1..Len(tools) : tools[i] = c.name

\* The ids of the tool invocations made for the turn in hand
RoundExecutedIds ==
    LET mine == SelectSeq(executed, LAMBDA e : e.id[1] = invocations)
    IN  [i \in 1..Len(mine) |-> mine[i].id]

\* While a turn's calls are handled, the results, the events and the tool
\* invocations so far are those of the calls before the one in hand, whole
\* and in the order of the requests
HandledInRequestOrder ==
    pc = "tools" =>
        LET done == DoneCalls
            ran == SelectSeq(done, RunsTool)
        IN  /\ tc_index \in 1..(Len(response.tool_calls) + 1)
            /\ Len(tool_results) = Len(done)
            /\ \A i \in 1..Len(done) : tool_results[i].tool_call_id = done[i].id
            /\ callbacks => RoundToolEvents = EventsOfCalls(done)
            /\ RoundExecutedIds = [i \in 1..Len(ran) |-> ran[i].id]

\* A step of the inner loop handles the one call in hand, and the loop is left
\* only when every call of the turn is handled
OneCallAtATime ==
    /\ HasToolCall
          => /\ pc' = "tools"
             /\ tc_index' = tc_index + 1
             /\ response' = response
             /\ Len(executed') \in {Len(executed), Len(executed) + 1}
             /\ Len(executed') > Len(executed) => executed'[Len(executed')].id = tc.id
    /\ (pc = "tools" /\ pc' # "tools") => tc_index = Len(response.tool_calls) + 1

\* C18: within one model turn the tool calls are handled strictly one after the
\* other in the order the model produced them: the outcome and the observer
\* events of call i are complete before call i+1 is started, and no two tool
\* invocations overlap.
C18_SequentialToolCalls ==
    /\ []HandledInRequestOrder
    /\ [][OneCallAtATime]_vars

\* Two calls of one turn are handled and a third is in hand; the first ran its
\* tool and the second was blocked, with an observer present
C18_Witness ==
    /\ pc = "tools"
    /\ callbacks
    /\ tc_index = 3
    /\ Len(response.tool_calls) = 3
    /\ RunsTool(response.tool_calls[1])
    /\ requires_approval(response.tool_calls[2].name) /\ ~approval_granted

\* ---------------------------------------------------------------------------
\* C19, C20: the answer of a cycle
\* ---------------------------------------------------------------------------

\* The texts of the model turns of this cycle that came with tool calls and
\* were handled, in order (the turns of the prior conversation carry no calls)
IntermediateTexts ==
    LET turns == SelectSeq(messages,
                           LAMBDA m : m.type = "ai" /\ m.tool_calls # <<>>)
    IN  [i \in 1..Len(turns) |-> extract_response_text(turns[i])]

\* The latest non-empty one of a sequence of texts, or the empty text
RECURSIVE LatestNonEmpty(_)
LatestNonEmpty(texts) ==
    IF texts = <<>> THEN <<>>
    ELSE IF texts[Len(texts)] # <<>> THEN texts[Len(texts)]
    ELSE LatestNonEmpty(SubSeq(texts, 1, Len(texts) - 1))

\* The answer for a turn: its text, else the latest intermediate text, else a
\* fixed message
AnswerFor(turn, fixed) ==
    LET text == extract_response_text(turn)
        seen == LatestNonEmpty(IntermediateTexts)
    IN  IF text # <<>> THEN text ELSE IF seen # <<>> THEN seen ELSE fixed

\* The loop has received a turn without tool call requests
TextOnlyTurn == pc = "loop" /\ response.tool_calls = <<>>

\* The turn in hand came from the last permitted model invocation
LastPermitted == iter = MAX_ITERATIONS

TextOnlyEndsAnyRound ==
    TextOnlyTurn
        => /\ pc' = "returned"
           /\ answer' = AnswerFor(response, <<"No response generated.">>)

\* C19 as stated: a text-only turn received at any round, the one of the last
\* permitted model invocation included, ends the cycle with its text, else the
\* latest intermediate text, else "No response generated.".
C19_TextOnlyTurnEndsCycle == [][TextOnlyEndsAnyRound]_vars

TextOnlyEndsByRound ==
    TextOnlyTurn
        => /\ pc' = "returned"
           /\ answer' = AnswerFor(response,
                                  IF LastPermitted
                                  THEN <<"Reached maximum analysis steps.">>
                                  ELSE <<"No response generated.">>)

\* C19 amended: a text-only turn ends the cycle with its text, else the latest
\* intermediate text, else a fixed message, which is "No response generated."
\* while an iteration is left and "Reached maximum analysis steps." for the
\* turn of the last permitted model invocation.
C19_TextOnlyTurnEndsCycleByRound == [][TextOnlyEndsByRound]_vars

\* The last permitted invocation gave a blank text-only turn after rounds
\* without any text
C19_Witness ==
    /\ pc = "returned"
    /\ response.tool_calls = <<>>
    /\ LastPermitted
    /\ extract_response_text(response) = <<>>
    /\ LatestNonEmpty(IntermediateTexts) = <<>>
    /\ answer = <<"Reached maximum analysis steps.">>

\* The ceiling is reached and the turn in hand is not a text-only one
CeilingWithRequests ==
    pc = "loop" /\ iter = MAX_ITERATIONS /\ response.tool_calls # <<>>

\* The latest non-empty text that came with tool calls in this cycle, the text
\* of the turn in hand included
LastIntermediateText ==
    LatestNonEmpty(Append(IntermediateTexts, extract_response_text(response)))

CeilingGivesBestText ==
    CeilingWithRequests
        => /\ pc' = "returned"
           /\ answer' = IF LastIntermediateText # <<>> THEN LastIntermediateText
                        ELSE <<"Reached maximum analysis steps.">>
           /\ executed' = executed
           /\ invocations' = invocations

\* C20: when the iteration ceiling is reached without a terminal text-only
\* turn, process_query returns the last intermediate text seen in the cycle
\* (the latest non-empty text that accompanied tool calls), or
\* "Reached maximum analysis steps." when no such text was seen.
C20_CeilingReturnsBestText == [][CeilingGivesBestText]_vars

\* The cycle ended at the ceiling on a turn with requests and a blank text, and
\* its answer is the text of an earlier round
C20_Witness ==
    /\ pc = "returned"
    /\ iter = MAX_ITERATIONS
    /\ response.tool_calls # <<>>
    /\ extract_response_text(response) = <<>>
    /\ answer # <<>>
    /\ answer = LatestNonEmpty(IntermediateTexts)

\* ---------------------------------------------------------------------------
\* C21: a confirmation unlocks the whole cycle
\* ---------------------------------------------------------------------------

\* C21 as stated: once a cycle whose input is a confirmation has returned,
\* every approval-required request the model produced in it has been executed.
C21_EveryAttemptExecuted ==
    (pc = "returned" /\ is_confirmation(user_input)) =>
        \A i \in 1..Len(ProducedRequests) :
           IsApprovalRequest(ProducedRequests[i])
              => ExecutionsOf(ProducedRequests[i].id) # <<>>

\* In a confirmed cycle nothing is blocked, and every approval-required request
\* of a handled turn has run once, with its own tool and arguments
ConfirmedCycleRunsAll ==
    (InCycle /\ is_confirmation(user_input)) =>
        LET handled == HandledRequests
        IN  /\ pending_actions = <<>>
            /\ EventsNamed("on_approval_skipped") = <<>>
            /\ \A i \in 1..Len(handled) :
                  IsApprovalRequest(handled[i]) =>
                     LET runs == ExecutionsOf(handled[i].id)
                     IN  /\ Len(runs) = 1
                         /\ runs[1].tool = handled[i].name
                         /\ runs[1].args = handled[i].args

\* In a confirmed cycle the approval-required call in hand is executed,
\* whatever the previous cycle was granted or left pending
ConfirmedCallRuns ==
    (HasToolCall /\ is_confirmation(user_input) /\ requires_approval(tc.name))
        => /\ Len(executed') = Len(executed) + 1
           /\ executed'[Len(executed')].id = tc.id
           /\ executed'[Len(executed')].tool = tc.name
           /\ pending_actions' = <<>>

\* C21 amended: in a cycle whose input is a confirmation, every
\* approval-required call of a model turn that the loop handles is executed,
\* whatever its name and arguments and whatever the previous cycle proposed or
\* blocked; the calls of the turn obtained by the last permitted model
\* invocation, at the iteration ceiling, are dropped like any other.
C21_ConfirmationUnlocksHandledCalls ==
    /\ []ConfirmedCycleRunsAll
    /\ [][ConfirmedCallRuns]_vars

\* In a confirmed cycle that follows no blocked call, approval-required calls
\* of two model turns have been executed
C21_Witness ==
    /\ is_confirmation(user_input)
    /\ prev_pending = {}
    /\ ~prev_granted
    /\ \E i, j \in 1..Len(executed) :
          /\ executed[i].tool \in APPROVAL_REQUIRED_TOOLS
          /\ executed[j].tool \in APPROVAL_REQUIRED_TOOLS
          /\ executed[i].id[1] # executed[j].id[1]

\* ---------------------------------------------------------------------------
\* C22: the conversation of a cycle only grows
\* ---------------------------------------------------------------------------

\* s is t with turns added at its end
IsPrefixOf(s, t) == Len(s) <= Len(t) /\ SubSeq(t, 1, Len(s)) = s

\* A model invocation is made within the cycle: the conversation it is given
\* is messages', and messages was given to the invocation before it
NextInvocation == InCycle /\ pc' # "idle" /\ invocations' # invocations

\* What is added for the invocation: the model turn in hand as it came, then
\* one Tool Result Turn for each of its requests, in their order
AddedForInvocation ==
    LET added == SubSeq(messages', Len(messages) + 1, Len(messages'))
        calls == response.tool_calls
    IN  /\ Len(added) = 1 + Len(calls)
        /\ added[1].type = "ai"
        /\ added[1].content = response.content
        /\ added[1].tool_calls = calls
        /\ \A k \in 1..Len(calls) :
              /\ added[1 + k].type = "tool"
              /\ added[1 + k].tool_call_id = calls[k].id

ConversationGrows ==
    /\ (InCycle /\ pc' # "idle") => IsPrefixOf(messages, messages')
    /\ NextInvocation => invocations' = invocations + 1 /\ AddedForInvocation
    /\ (InCycle /\ pc' # "idle" /\ ~NextInvocation) => messages' = messages

\* C22: within a cycle the conversation only grows: what a model invocation is
\* given is what the invocation before it was given, followed by exactly the
\* previous model turn (its text and all its requests, blocked ones included)
\* and one Tool Result Turn per request in request order; nothing is removed
\* or reordered.
C22_ConversationOnlyGrows == [][ConversationGrows]_vars

\* The third invocation of a cycle has been made; a recorded model turn has
\* several requests and one of them was blocked
C22_Witness ==
    /\ pc = "loop"
    /\ invocations = 3
    /\ pending_actions # <<>>
    /\ \E i \in RecordedTurns :
          /\ Len(messages[i].tool_calls) >= 2
          /\ \E k \in 1..Len(messages[i].tool_calls) :
                messages[i].tool_calls[k] = pending_actions[1]

\* ---------------------------------------------------------------------------
\* C23: "thinking" is reported before every model invocation, and only then
\* ---------------------------------------------------------------------------

\* With an observer there are as many "thinking" events as model invocations,
\* and when an invocation has just been made the event before it is the last
\* one reported
ThinkingPerInvocation ==
    (InCycle /\ callbacks) =>
        /\ Len(EventsNamed("on_thinking")) = invocations
        /\ pc \in {"loop", "raised"}
              => events # <<>> /\ events[Len(events)].ev = "on_thinking"

\* A step reports "thinking" exactly when it makes a model invocation; the
\* event is the only one of the step and the step runs no tool
ThinkingOnlyAtInvocation ==
    LET invokes == pc' # "idle" /\ invocations' # invocations
        reports == /\ pc' # "idle"
                   /\ Len(SelectSeq(events', LAMBDA e : e.ev = "on_thinking"))
                         # Len(EventsNamed("on_thinking"))
    IN  callbacks' =>
           /\ invokes <=> reports
           /\ invokes =>
                 /\ events' = (IF pc = "idle" THEN <<>> ELSE events) \o <<on_thinking>>
                 /\ executed' = (IF pc = "idle" THEN <<>> ELSE executed)
                 /\ pc' \in {"loop", "raised"}

\* C23: with an observer present, a "thinking" event is reported before every
\* model invocation of a cycle and only then: there are as many on_thinking
\* events as model invocations, and between an on_thinking and its model
\* invocation no tool is executed and no other event is reported.
C23_ThinkingBeforeEachInvocation ==
    /\ []ThinkingPerInvocation
    /\ [][ThinkingOnlyAtInvocation]_vars

\* An observed cycle is at its third model invocation after running a tool
C23_Witness ==
    /\ callbacks
    /\ pc = "loop"
    /\ invocations = 3
    /\ executed # <<>>
    /\ Len(EventsNamed("on_thinking")) = 3
    /\ Len(events) > 3

\* ---------------------------------------------------------------------------
\* C24: the observer events of a tool call
\* ---------------------------------------------------------------------------

\* The name is the name of a tool of the agent
Registered(name) == \E i \in 1..Len(tools) : tools[i] = name

\* The call in hand is one the gate holds back in this cycle
HeldBack == requires_approval(tc.name) /\ ~is_confirmation(user_input)

\* What the step that handles the call in hand reports to the observer
ReportedForCall == SubSeq(events', Len(events) + 1, Len(events'))

\* The Tool Result Turn the step makes for the call in hand
ResultForCall == tool_results'[Len(tool_results')]

EventsFollowProtocol ==
    (HasToolCall /\ callbacks) =>
        /\ IsPrefixOf(events, events')
        /\ HeldBack
              => /\ ReportedForCall = <<on_approval_skipped(tc.name, tc.args)>>
                 /\ executed' = executed
        /\ (~HeldBack /\ ~Registered(tc.name))
              => /\ ReportedForCall = <<on_tool_start(tc.name, tc.args)>>
                 /\ executed' = executed
        /\ (~HeldBack /\ Registered(tc.name))
              => /\ Len(ReportedForCall) = 2
                 /\ ReportedForCall[1] = on_tool_start(tc.name, tc.args)
                 /\ ReportedForCall[2].ev = "on_tool_end"
                 /\ ReportedForCall[2].name = tc.name
                 /\ Len(executed') = Len(executed) + 1
                 /\ ReportedForCall[2].success = ~executed'[Len(executed')].raised
                 /\ IF ReportedForCall[2].success
                    THEN ResultForCall.content = StrContent(ReportedForCall[2].text)
                    ELSE ResultForCall.content =
                            StrContent(<<"Error: ">> \o ReportedForCall[2].text)

\* With an observer, the tool-end events are those of the tool invocations
\* made, one for one and in order
EndsMatchInvocations ==
    (InCycle /\ callbacks) =>
        LET ends == EventsNamed("on_tool_end")
        IN  /\ Len(ends) = Len(executed)
            /\ \A k \in 1..Len(ends) :
                  /\ ends[k].name = executed[k].tool
                  /\ ends[k].success = ~executed[k].raised
            /\ Len(EventsNamed("on_approval_skipped")) = Len(pending_actions)

\* C24: per tool call the observer gets: for a blocked call one
\* on_approval_skipped and neither on_tool_start nor on_tool_end; for a call to
\* a registered tool on_tool_start and then one on_tool_end (success with the
\* result text, or failure with the error description); for a call to an
\* unknown tool on_tool_start and no on_tool_end.  So the tool-end events are
\* as many as the tool invocations made.
C24_ToolEventProtocol ==
    /\ []EndsMatchInvocations
    /\ [][EventsFollowProtocol]_vars

\* One observed turn had a blocked call, a call to an unknown tool and a call
\* whose tool failed
C24_Witness ==
    /\ callbacks
    /\ pc = "tools"
    /\ tc_index = 4
    /\ Len(EventsNamed("on_approval_skipped")) = 1
    /\ Len(EventsNamed("on_tool_start")) = 2
    /\ Len(EventsNamed("on_tool_end")) = 1
    /\ ~EventsNamed("on_tool_end")[1].success

\* ---------------------------------------------------------------------------
\* _execute_tool_call statement by statement: the gate, the lookup, the call
\* ---------------------------------------------------------------------------

\* How many calls the turn in hand has at most
MaxCalls == 2

\* The names a call may carry: every tool of the agent, and names of no tool
CallNames == {get_all_tools[i] : i \in 1..Len(get_all_tools)} \cup RequestNames

\* The turns whose calls are handled
CallTurns ==
    { [content |-> StrContent(<<>>), tool_calls |-> ToolCalls(names, 1)] :
        names \in UNION { [1..n -> CallNames] : n \in 1..MaxCalls } }

\* _tool_loop is at its inner for loop (line 110) in an agent that has made
\* its first model invocation
CallInit ==
    /\ tools = get_all_tools
    /\ pending_actions = <<>>
    /\ pc = "gate"
    /\ user_input \in Prompts
    /\ callbacks \in BOOLEAN
    /\ approval_granted = is_confirmation(user_input)
    /\ messages = format_messages(<<>>, user_input)
    /\ response \in CallTurns
    /\ last_text = <<>>
    /\ iter = 0
    /\ tool_results = <<>>
    /\ tc_index = 1
    /\ answer = <<>>
    /\ invocations = 1
    /\ requested = Len(response.tool_calls)
    /\ executed = <<>>
    /\ events = Report(<<>>, callbacks, <<on_thinking>>)
    /\ prev_granted = FALSE
    /\ prev_pending = {}
    /\ session = <<>>
    /\ status = "none"
    /\ first_run = NoRun
    /\ llm = get_llm_with_tools(get_all_tools)
    /\ prompt = from_messages
    /\ chat_history = <<>>

\* What _execute_tool_call leaves alone
CallFrame ==
    /\ UNCHANGED <<tools, llm, prompt, chat_history,
                   user_input, callbacks, approval_granted, messages,
                   response, last_text, iter, answer, invocations, requested,
                   prev_granted, prev_pending>>
    /\ UNCHANGED outside

\* _execute_tool_call is entered for a call: line 144 is next
AtGate == pc = "gate" /\ tc_index <= Len(response.tool_calls)

\* Line 144 finds the call blocked (lines 144-156)
GateBlocks ==
    /\ AtGate
    /\ requires_approval(tc.name) /\ ~approval_granted
    /\ pending_actions' = Append(pending_actions, tc)
    /\ events' = Report(events, callbacks, <<on_approval_skipped(tc.name, tc.args)>>)
    /\ tool_results' = Append(tool_results, ToolMessage(BlockedNotice(tc.name), tc.id))
    /\ tc_index' = tc_index + 1
    /\ pc' = "gate"
    /\ UNCHANGED executed
    /\ CallFrame

\* Line 144 lets the call through; on_tool_start is reported (lines 159-160)
GatePasses ==
    /\ AtGate
    /\ ~(requires_approval(tc.name) /\ ~approval_granted)
    /\ events' = Report(events, callbacks, <<on_tool_start(tc.name, tc.args)>>)
    /\ pc' = "find"
    /\ UNCHANGED <<pending_actions, tool_results, tc_index, executed>>
    /\ CallFrame

\* The lookup of line 162 gives None (lines 162-165)
FindFails ==
    /\ pc = "find"
    /\ _find_tool(tc.name) = None
    /\ tool_results' = Append(tool_results,
                              ToolMessage(<<"Tool '", tc.name, "' not found">>, tc.id))
    /\ tc_index' = tc_index + 1
    /\ pc' = "gate"
    /\ UNCHANGED <<pending_actions, executed, events>>
    /\ CallFrame

\* The lookup of line 162 gives a tool
FindSucceeds ==
    /\ pc = "find"
    /\ _find_tool(tc.name) # None
    /\ pc' = "invoke"
    /\ UNCHANGED <<pending_actions, tool_results, tc_index, executed, events>>
    /\ CallFrame

\* tool_func.invoke returns (lines 167-171)
InvokeReturns ==
    /\ pc = "invoke"
    /\ LET result == ToolOutput(_find_tool(tc.name))
       IN  /\ executed' = Append(executed, [tool |-> _find_tool(tc.name),
                                            args |-> tc.args, id |-> tc.id,
                                            raised |-> FALSE])
           /\ events' = Report(events, callbacks, <<on_tool_end(tc.name, result, TRUE)>>)
           /\ tool_results' = Append(tool_results, ToolMessage(result, tc.id))
    /\ tc_index' = tc_index + 1
    /\ pc' = "gate"
    /\ UNCHANGED pending_actions
    /\ CallFrame

\* tool_func.invoke raises (lines 167-175)
InvokeRaises ==
    /\ pc = "invoke"
    /\ LET e == ToolError(_find_tool(tc.name))
       IN  /\ executed' = Append(executed, [tool |-> _find_tool(tc.name),
                                            args |-> tc.args, id |-> tc.id,
                                            raised |-> TRUE])
           /\ events' = Report(events, callbacks, <<on_tool_end(tc.name, e, FALSE)>>)
           /\ tool_results' = Append(tool_results,
                                     ToolMessage(<<"Error: ">> \o e, tc.id))
    /\ tc_index' = tc_index + 1
    /\ pc' = "gate"
    /\ UNCHANGED pending_actions
    /\ CallFrame

CallNext ==
    \/ GateBlocks
    \/ GatePasses
    \/ FindFails
    \/ FindSucceeds
    \/ InvokeReturns
    \/ InvokeRaises

CallSpec == CallInit /\ [][CallNext]_vars

\* requires_approval is false for every name outside the approval-required
\* set, the names of no tool included
FalseOutsideTheSet ==
    \A name \in CallNames :
       /\ name \notin APPROVAL_REQUIRED_TOOLS => ~requires_approval(name)
       /\ ~Registered(name) => ~requires_approval(name)
       /\ name \in APPROVAL_REQUIRED_TOOLS => requires_approval(name)

\* A step that evaluates requires_approval for the call in hand
GateStep == AtGate /\ (pc' # "gate" \/ tc_index' # tc_index)

\* A step that looks the name of the call in hand up in the registry
FindStep == pc = "find" /\ pc' # "find"

UnknownSkipsGate == GateStep => Registered(tc.name)

\* C25 as stated: requires_approval is false outside the approval-required
\* set, and in the loop a name of no tool never reaches the requires_approval
\* check, because the lookup fails first.
C25_LookupBeforeGate ==
    /\ []FalseOutsideTheSet
    /\ [][UnknownSkipsGate]_vars

\* The lookup is made only for a call that the gate has let through, and a
\* name of no tool gets its not-found result there, after on_tool_start
GateBeforeLookup ==
    /\ (pc # "find" /\ pc' = "find")
          => /\ GateStep
             /\ ~requires_approval(tc.name) \/ approval_granted
             /\ tc_index' = tc_index
    /\ (FindStep /\ ~Registered(tc.name))
          => /\ tool_results' =
                   Append(tool_results,
                          ToolMessage(<<"Tool '", tc.name, "' not found">>, tc.id))
             /\ executed' = executed
             /\ pending_actions' = pending_actions
             /\ callbacks => events[Len(events)] = on_tool_start(tc.name, tc.args)
    /\ (GateStep /\ ~Registered(tc.name)) => pc' = "find"

\* C25 amended: requires_approval is false for every name outside the
\* approval-required set, unknown names included; in the loop every call, one
\* with an unknown name too, reaches the requires_approval check first, and
\* the registry lookup is made only for a call that check has let through,
\* where an unknown name gets its not-found result.
C25_GateBeforeLookup ==
    /\ []FalseOutsideTheSet
    /\ [][GateBeforeLookup]_vars

\* A call with the name of no tool has passed the gate and the lookup has
\* failed
C25_Witness ==
    /\ pc = "gate"
    /\ tc_index = 2
    /\ ~Registered(response.tool_calls[1].name)
    /\ tool_results =
          <<ToolMessage(<<"Tool '", response.tool_calls[1].name, "' not found">>,
                        response.tool_calls[1].id)>>
    /\ callbacks
    /\ events[Len(events)].ev = "on_tool_start"

\* ---------------------------------------------------------------------------
\* C26: the two classes of tools
\* ---------------------------------------------------------------------------

\* The names of the tools the agent holds
RegistryNames == {tools[i] : i \in 1..Len(tools)}

ClassesPartitionRegistry ==
    /\ SAFE_TOOLS \cap APPROVAL_REQUIRED_TOOLS = {}
    /\ \A i \in 1..Len(tools) :
          (tools[i] \in SAFE_TOOLS) # (tools[i] \in APPROVAL_REQUIRED_TOOLS)
    /\ SAFE_TOOLS \cup APPROVAL_REQUIRED_TOOLS \subseteq RegistryNames
    /\ {"restart_kubernetes_pod", "reboot_rds_instance"} \subseteq APPROVAL_REQUIRED_TOOLS
    /\ tools = get_all_tools
    /\ \A i, j \in 1..Len(tools) : tools[i] = tools[j] => i = j

\* A step leaves the registry as it is, and the gate of a call follows the
\* class of its name alone
ClassesStay ==
    /\ tools' = tools
    /\ HasToolCall =>
          (requires_approval(tc.name) <=> tc.name \in APPROVAL_REQUIRED_TOOLS)

\* C26: SAFE_TOOLS and APPROVAL_REQUIRED_TOOLS are disjoint, every tool of
\* get_all_tools is in exactly one of them, every name of either class is a
\* tool of the agent, restart_kubernetes_pod and reboot_rds_instance need
\* approval, and nothing of this changes while the agent runs.
C26_ClassesPartitionRegistry ==
    /\ []ClassesPartitionRegistry
    /\ [][ClassesStay]_vars

\* A later cycle of the agent: tools of both classes have run in it
C26_Witness ==
    /\ pc = "returned"
    /\ prev_pending # {}
    /\ \E i, j \in 1..Len(executed) :
          /\ executed[i].tool \in SAFE_TOOLS
          /\ executed[j].tool \in APPROVAL_REQUIRED_TOOLS

\* ---------------------------------------------------------------------------
\* C27: what a cycle leaves alone
\* ---------------------------------------------------------------------------

\* The agent is as __init__ made it, but for Pending Actions
AgentAsConstructed ==
    /\ tools = get_all_tools
    /\ llm = get_llm_with_tools(get_all_tools)
    /\ llm.bound = tools
    /\ prompt = from_messages

\* While a cycle runs the caller's list stays as it was passed, and the
\* conversation of the loop starts with a copy of it
CallerListKept ==
    InCycle =>
        /\ Len(messages) >= Len(chat_history) + 2
        /\ SubSeq(messages, 2, Len(chat_history) + 1) = chat_history
        /\ \A i \in 1..Len(chat_history) : chat_history[i].type \in {"human", "ai"}

\* A step changes neither the tools, the model client nor the template, and
\* within a cycle it does not change the caller's list
FrameOfCycle ==
    /\ tools' = tools /\ llm' = llm /\ prompt' = prompt
    /\ (InCycle /\ pc' # "idle") => chat_history' = chat_history

\* C27: a cycle changes no agent state but Pending Actions: the tools, the
\* bound model client and the prompt template are after any sequence of cycles
\* what they were after construction, and the prior conversation list of the
\* caller is left as it was passed (the loop extends a list of its own).
C27_CycleChangesOnlyPending ==
    /\ [](AgentAsConstructed /\ CallerListKept)
    /\ [][FrameOfCycle]_vars

\* A cycle called with a prior conversation has extended its own conversation
\* and left Pending Actions changed, in an agent that ran a cycle before
C27_Witness ==
    /\ pc = "returned"
    /\ chat_history = EarlierTurns
    /\ Len(messages) > Len(chat_history) + 2
    /\ pending_actions # <<>>
    /\ prev_granted

\* ---------------------------------------------------------------------------
\* C28: the requests of the turn obtained at the ceiling
\* ---------------------------------------------------------------------------

\* The step that ends the cycle at the ceiling keeps its hands off the requests
\* of the turn in hand
CeilingDropsRequests ==
    CeilingWithRequests
        => /\ pc' = "returned"
           /\ executed' = executed
           /\ pending_actions' = pending_actions
           /\ messages' = messages
           /\ tool_results' = tool_results
           /\ events' = events
           /\ response' = response

\* After a cycle that ended at the ceiling, nothing is on record for a request
\* of its last turn, and the last event is the "thinking" before that turn
DroppedLeaveNoTrace ==
    (pc = "returned" /\ iter = MAX_ITERATIONS) =>
        /\ \A k \in 1..Len(response.tool_calls) :
              LET c == response.tool_calls[k]
              IN  /\ ExecutionsOf(c.id) = <<>>
                  /\ ResultTurnsFor(c.id) = <<>>
                  /\ \A j \in 1..Len(pending_actions) : pending_actions[j].id # c.id
        /\ callbacks => events[Len(events)] = on_thinking
        /\ Len(EventsNamed("on_reasoning")) <= MAX_ITERATIONS

\* C28: at the iteration ceiling the requests of the turn obtained from the
\* last model invocation are dropped: none is executed, none is recorded in
\* Pending Actions, none gets a Tool Result Turn or an observer event, and the
\* text of that turn is not reported as a reasoning event.
C28_CeilingDropsLastRequests ==
    /\ []DroppedLeaveNoTrace
    /\ [][CeilingDropsRequests]_vars

\* An observed, confirmed cycle ended at the ceiling on a turn with a text and
\* a request for an approval-required tool
C28_Witness ==
    /\ pc = "returned"
    /\ iter = MAX_ITERATIONS
    /\ callbacks
    /\ approval_granted
    /\ extract_response_text(response) # <<>>
    /\ \E k \in 1..Len(response.tool_calls) : IsApprovalRequest(response.tool_calls[k])

\* ---------------------------------------------------------------------------
\* C29: what a session carries from one cycle to the next
\* ---------------------------------------------------------------------------

\* The messages of the session before the prompt of the running cycle
EarlierMessages == SubSeq(session, 1, Len(session) - 1)

\* The prior conversation of the running cycle is the earlier prompts and the
\* texts recorded for them, in turn and in order, and nothing else
PriorIsPromptsAndAnswers ==
    InCycle =>
        LET earlier == EarlierMessages
        IN  /\ session[Len(session)] = SessionMessage("user", user_input)
            /\ Len(chat_history) = Len(earlier)
            /\ Len(earlier) % 2 = 0
            /\ \A i \in 1..Len(earlier) :
                  /\ earlier[i].role = (IF i % 2 = 1 THEN "user" ELSE "assistant")
                  /\ chat_history[i].type = (IF i % 2 = 1 THEN "human" ELSE "ai")
                  /\ chat_history[i].content = StrContent(earlier[i].content)
                  /\ chat_history[i].tool_calls = <<>>
            /\ SubSeq(messages, 1, Len(chat_history) + 2)
                  = format_messages(chat_history, user_input)

\* What a step does to the session: a prompt adds its user message, the end of
\* its cycle adds the answer or the error text, and nothing else is added
SessionStep ==
    /\ (pc = "idle" /\ pc' # "idle")
          => session' = Append(session, SessionMessage("user", user_input'))
    /\ (pc = "returned" /\ pc' = "idle")
          => session' = Append(session,
                               SessionMessage("assistant",
                                   IF Strip(answer) = <<>>
                                   THEN <<"No response generated. Try a different question.">>
                                   ELSE answer))
    /\ (pc = "raised" /\ pc' = "idle")
          => session' = Append(session, SessionMessage("assistant", ErrorText))
    /\ (pc # "idle" /\ pc' # "idle") => session' = session
    /\ pc' = "idle" => pc \in {"returned", "raised"}

\* C29: across the cycles of a session the prior conversation given to
\* process_query holds only the earlier user inputs and the final answers (or
\* error texts) of the earlier cycles, in turn and in order, without the
\* current prompt; tool call requests, Tool Result Turns and blocked notices of
\* earlier cycles are not carried over; each prompt adds one user message and
\* one assistant message to the session.
C29_SessionCarriesPromptsAndAnswers ==
    /\ []PriorIsPromptsAndAnswers
    /\ [][SessionStep]_vars

\* The second cycle of a session runs after a cycle in which a call was
\* blocked and a tool result was fed back
C29_Witness ==
    /\ pc = "tools"
    /\ Len(session) = 3
    /\ Len(chat_history) = 2
    /\ prev_pending # {}
    /\ session[2].content # ErrorText
====
